---- MODULE Spec2Model ----
(***************************************************************************)
(* A model of fgmetric: the Metric record model (empty-field normalizer,   *)
(* delimited-list codec, counter pivot table), Metric.read and             *)
(* MetricWriter.                                                           *)
(*                                                                         *)
(* Text is a sequence of one-character strings, so that splitting and      *)
(* joining are computed and not assumed.  A Python value is a record       *)
(* [tag, s, n, xs, cnt]; a dict is a sequence of [k, v] pairs, which keeps *)
(* Python's insertion order.                                               *)
(***************************************************************************)
EXTENDS Integers, Sequences, FiniteSets, TLC

\* ------------------------------------------------------------------ bounds
MaxCellLen == 3
MaxElems == 2
MaxElemLen == 1
MaxRows == 3

\* ---------------------------------------------------------------- strings
Chars == {"a", "0", "1", ",", ";"}
Digits == <<"0", "1", "2", "3", "4", "5", "6", "7", "8", "9">>

IsDigit(ch) == \E d \in 1..Len(Digits) : Digits[d] = ch
DigitVal(ch) == (CHOOSE d \in 1..Len(Digits) : Digits[d] = ch) - 1

\* int(s) on a decimal numeral, with or without a minus sign
RECURSIVE IntOf(_)
IntOf(s) ==
    IF s = <<>> THEN 0
    ELSE IF s[1] = "-" THEN 0 - IntOf(Tail(s))
    ELSE IntOf(SubSeq(s, 1, Len(s) - 1)) * Len(Digits) + DigitVal(s[Len(s)])

IsIntString(s) ==
    LET digits == IF s # <<>> /\ s[1] = "-" THEN Tail(s) ELSE s
    IN  Len(digits) > 0 /\ \A i \in 1..Len(digits) : IsDigit(digits[i])

\* str(n) for n >= 0
RECURSIVE StrOfNat(_)
StrOfNat(n) ==
    IF n < Len(Digits) THEN <<Digits[n + 1]>>
    ELSE StrOfNat(n \div Len(Digits)) \o <<Digits[(n % Len(Digits)) + 1]>>

\* value.split(sep), sep a non-empty string
RECURSIVE Split(_, _)
Split(s, sep) ==
    LET n == Len(sep)
        hits == {i \in 1..(Len(s) - n + 1) : SubSeq(s, i, i + n - 1) = sep}
    IN  IF hits = {} THEN <<s>>
        ELSE LET i == CHOOSE h \in hits : \A g \in hits : h <= g
             IN  <<SubSeq(s, 1, i - 1)>> \o Split(SubSeq(s, i + n, Len(s)), sep)

\* sep.join(elements)
RECURSIVE Join(_, _)
Join(sep, elements) ==
    IF elements = <<>> THEN <<>>
    ELSE IF Len(elements) = 1 THEN elements[1]
    ELSE elements[1] \o sep \o Join(sep, Tail(elements))

Contains(s, sep) == \E i \in 1..(Len(s) - Len(sep) + 1) : SubSeq(s, i, i + Len(sep) - 1) = sep

RECURSIVE StringsUpTo(_)
StringsUpTo(n) ==
    IF n = 0 THEN {<<>>}
    ELSE LET shorter == StringsUpTo(n - 1)
         IN  shorter \cup {Append(s, ch) : s \in shorter, ch \in Chars}

\* all sequences over S of length at most n
RECURSIVE SeqsUpTo(_, _)
SeqsUpTo(S, n) ==
    IF n = 0 THEN {<<>>}
    ELSE LET shorter == SeqsUpTo(S, n - 1)
         IN  shorter \cup {Append(q, x) : q \in shorter, x \in S}

\* ----------------------------------------------------------------- values
NoneV == [tag |-> "none", s |-> <<>>, n |-> 0, xs |-> <<>>, cnt |-> <<>>]
StrV(str) == [tag |-> "str", s |-> str, n |-> 0, xs |-> <<>>, cnt |-> <<>>]
IntV(i) == [tag |-> "int", s |-> <<>>, n |-> i, xs |-> <<>>, cnt |-> <<>>]
ListV(elems) == [tag |-> "list", s |-> <<>>, n |-> 0, xs |-> elems, cnt |-> <<>>]
CounterV(counts) == [tag |-> "counter", s |-> <<>>, n |-> 0, xs |-> <<>>, cnt |-> counts]
ErrV == [tag |-> "err", s |-> <<>>, n |-> 0, xs |-> <<>>, cnt |-> <<>>]

\* str(item)
StrOf(item) ==
    IF item.tag = "int"
    THEN IF item.n < 0 THEN <<"-">> \o StrOfNat(0 - item.n) ELSE StrOfNat(item.n)
    ELSE item.s

\* dicts
Keys(d) == {d[i].k : i \in 1..Len(d)}
HasKey(d, key) == \E i \in 1..Len(d) : d[i].k = key
Get(d, key) == d[CHOOSE i \in 1..Len(d) : d[i].k = key].v
Pop(d, key) == SelectSeq(d, LAMBDA p : p.k # key)
Put(d, key, val) ==
    IF HasKey(d, key)
    THEN [i \in 1..Len(d) |-> IF d[i].k = key THEN [k |-> key, v |-> val] ELSE d[i]]
    ELSE Append(d, [k |-> key, v |-> val])
KeySeq(d) == [i \in 1..Len(d) |-> d[i].k]

\* ------------------------------------------------------ type annotations
\* An annotation is a tuple: a tag, then its type arguments (tuples again).
Plain(name) == <<"type", <<name>>>>
NoneType == Plain("NoneType")
ListOf(t) == <<"list", t>>
CounterOf(t) == <<"Counter", t>>
Optional(t) == <<"Union", t, NoneType>>
OrNone(t) == <<"UnionType", t, NoneType>>
StrEnum(name) == <<"StrEnum", <<name>>>>
NoAnnotation == <<"missing">>

IsNoneType(t) == t[1] = "type" /\ t[2][1] = "NoneType"
get_origin(t) == IF t[1] \in {"type", "StrEnum", "missing"} THEN "none" ELSE t[1]
get_args(t) == IF get_origin(t) = "none" THEN <<>> ELSE SubSeq(t, 2, Len(t))

\* faulty variant: only typing.Union is taken for a union, not the PEP 604 form
is_optional_typing_union_only(annotation) ==
    IF annotation[1] = "missing" THEN FALSE
    ELSE LET origin == get_origin(annotation)
             args == get_args(annotation)
         IN  /\ origin # "none"
             /\ origin \in {"Union"}
             /\ \E i \in 1..Len(args) : IsNoneType(args[i])

is_optional(annotation) ==
    IF annotation[1] = "missing" THEN FALSE
    ELSE LET origin == get_origin(annotation)
             args == get_args(annotation)
         IN  /\ origin # "none"
             /\ origin \in {"Union", "UnionType"}
             /\ \E i \in 1..Len(args) : IsNoneType(args[i])

\* faulty variant: the first remaining member is returned, whatever else remains
unpack_optional_first(annotation) ==
    IF ~is_optional(annotation) THEN <<"ValueError">>
    ELSE LET args == SelectSeq(get_args(annotation), LAMBDA t : ~IsNoneType(t))
         IN  args[1]

\* the result, or <<"ValueError">> when the call raises
unpack_optional(annotation) ==
    IF ~is_optional(annotation) THEN <<"ValueError">>
    ELSE LET args == SelectSeq(get_args(annotation), LAMBDA t : ~IsNoneType(t))
         IN  IF Len(args) = 1 THEN args[1] ELSE <<"UnionType">> \o args

has_origin(annotation, origin) ==
    IF annotation[1] = "missing" THEN FALSE
    ELSE IF get_origin(annotation) = origin THEN TRUE
    ELSE IF is_optional(annotation) /\ get_origin(unpack_optional(annotation)) = origin THEN TRUE
    ELSE FALSE

is_list(annotation) == has_origin(annotation, "list")
is_counter(annotation) == has_origin(annotation, "Counter")

\* faulty variant: an optional list is not unwrapped first
has_optional_elements_not_unwrapping(annotation) ==
    IF annotation[1] = "missing" THEN FALSE
    ELSE LET inner == annotation
         IN  IF get_origin(inner) # "list" THEN FALSE
             ELSE LET args == get_args(inner)
                  IN  Len(args) = 1 /\ is_optional(args[1])

has_optional_elements(annotation) ==
    IF annotation[1] = "missing" THEN FALSE
    ELSE LET inner == IF is_optional(annotation) THEN unpack_optional(annotation) ELSE annotation
         IN  IF ~is_list(inner) THEN FALSE
             ELSE LET args == get_args(inner)
                  IN  Len(args) = 1 /\ is_optional(args[1])

\* ------------------------------------------------------------------ enums
EnumMembers(enum) ==
    IF enum = "FakeEnum"
    THEN << [name |-> "FOO", value |-> "foo"],
            [name |-> "BAR", value |-> "bar"],
            [name |-> "BAZ", value |-> "baz"] >>
    ELSE <<>>

IsEnumValue(enum, key) == \E i \in 1..Len(EnumMembers(enum)) : EnumMembers(enum)[i].value = key
\* cls._counter_enum(key): the member whose value is key
EnumOf(enum, key) ==
    EnumMembers(enum)[CHOOSE i \in 1..Len(EnumMembers(enum)) : EnumMembers(enum)[i].value = key].name
\* member.value
ValueOf(enum, member) ==
    EnumMembers(enum)[CHOOSE i \in 1..Len(EnumMembers(enum)) : EnumMembers(enum)[i].name = member].value

\* ------------------------------------------------------- class definition
\* Python's None for a ClassVar[str | None]
NoName == "<None>"

FieldNames(decl) == [i \in 1..Len(decl.model_fields) |-> decl.model_fields[i].name]
IsField(c, key) == \E i \in 1..Len(c.model_fields) : c.model_fields[i].name = key
\* cls.model_fields.get(field).annotation
AnnotationOf(c, key) ==
    c.model_fields[CHOOSE i \in 1..Len(c.model_fields) : c.model_fields[i].name = key].annotation

\* faulty variant: only the empty delimiter is refused
_require_nonempty_collection_delimiter(decl) == Len(decl.collection_delimiter) >= 1

_require_single_character_collection_delimiter(decl) == Len(decl.collection_delimiter) = 1

_list_fieldnames(decl) ==
    {decl.model_fields[i].name : i \in {j \in 1..Len(decl.model_fields) :
                                           is_list(decl.model_fields[j].annotation)}}

_optional_element_fieldnames(decl) ==
    {decl.model_fields[i].name : i \in {j \in 1..Len(decl.model_fields) :
                                           has_optional_elements(decl.model_fields[j].annotation)}}

\* faulty variant: with several Counter fields the first one is taken
_get_counter_fieldname_first(decl) ==
    LET counter_fieldnames ==
            SelectSeq(FieldNames(decl), LAMBDA name : is_counter(AnnotationOf(decl, name)))
        counter_fieldname == IF counter_fieldnames # <<>> THEN counter_fieldnames[1] ELSE NoName
    IN  IF counter_fieldname # NoName /\ is_optional(AnnotationOf(decl, counter_fieldname))
        THEN [raised |-> "TypeError", value |-> NoName]
        ELSE [raised |-> "", value |-> counter_fieldname]

\* faulty variant: a Counter inside an Optional is not recognised as a Counter field
_get_counter_fieldname_skipping_optional(decl) ==
    LET counter_fieldnames ==
            SelectSeq(FieldNames(decl),
                      LAMBDA name : get_origin(AnnotationOf(decl, name)) = "Counter")
    IN  IF Len(counter_fieldnames) > 1
        THEN [raised |-> "TypeError", value |-> NoName]
        ELSE [raised |-> "",
              value |-> IF counter_fieldnames # <<>> THEN counter_fieldnames[1] ELSE NoName]

\* [raised, value]: raised is "" when the call returns value
_get_counter_fieldname(decl) ==
    LET counter_fieldnames ==
            SelectSeq(FieldNames(decl), LAMBDA name : is_counter(AnnotationOf(decl, name)))
    IN  IF Len(counter_fieldnames) > 1
        THEN [raised |-> "TypeError", value |-> NoName]
        ELSE LET counter_fieldname ==
                     IF counter_fieldnames # <<>> THEN counter_fieldnames[1] ELSE NoName
             IN  IF counter_fieldname # NoName /\ is_optional(AnnotationOf(decl, counter_fieldname))
                 THEN [raised |-> "TypeError", value |-> NoName]
                 ELSE [raised |-> "", value |-> counter_fieldname]

\* faulty variant: the type parameter is taken without the StrEnum check
_get_counter_enum_unchecked(decl, counter_fieldname) ==
    IF counter_fieldname = NoName THEN [raised |-> "", value |-> NoName]
    ELSE LET args == get_args(AnnotationOf(decl, counter_fieldname))
         IN  IF Len(args) = 1
             THEN [raised |-> "", value |-> args[1][2][1]]
             ELSE [raised |-> "TypeError", value |-> NoName]

_get_counter_enum(decl, counter_fieldname) ==
    IF counter_fieldname = NoName THEN [raised |-> "", value |-> NoName]
    ELSE LET args == get_args(AnnotationOf(decl, counter_fieldname))
         IN  IF Len(args) = 1 /\ args[1][1] = "StrEnum"
             THEN [raised |-> "", value |-> args[1][2][1]]
             ELSE [raised |-> "TypeError", value |-> NoName]

\* __pydantic_init_subclass__ of Metric: CounterPivotTable's runs inside the super() call
\* of DelimitedList's, so the counter checks come first.
DefineClass(decl) ==
    LET fieldname == _get_counter_fieldname(decl)
        enum == _get_counter_enum(decl, fieldname.value)
        raised ==
            IF fieldname.raised # "" THEN fieldname.raised
            ELSE IF enum.raised # "" THEN enum.raised
            ELSE IF ~_require_single_character_collection_delimiter(decl) THEN "ValueError"
            ELSE ""
    IN  [ raised |-> raised,
          model_fields |-> decl.model_fields,
          collection_delimiter |-> decl.collection_delimiter,
          _list_fieldnames |-> _list_fieldnames(decl),
          _optional_element_fieldnames |-> _optional_element_fieldnames(decl),
          _counter_fieldname |-> fieldname.value,
          _counter_enum |-> enum.value ]

\* ------------------------------------------------------------ row decode
_is_list_field(c, field_name) == field_name # NoName /\ field_name \in c._list_fieldnames

\* faulty variant: the normalizer does nothing (the hook is not run before the list split)
_empty_field_to_none_skipped(c, data) == data

\* faulty variant: the empty string becomes None in every declared field, optional or not
_empty_field_to_none_any_field(c, data) ==
    [i \in 1..Len(data) |->
        IF ~IsField(c, data[i].k) THEN data[i]
        ELSE IF data[i].v = StrV(<<>>) THEN [k |-> data[i].k, v |-> NoneV]
             ELSE data[i]]

\* faulty variant: the empty cell of a list field is left for the split
_empty_field_to_none_not_lists(c, data) ==
    [i \in 1..Len(data) |->
        IF ~IsField(c, data[i].k) THEN data[i]
        ELSE IF /\ data[i].v = StrV(<<>>)
                /\ is_optional(AnnotationOf(c, data[i].k))
                /\ ~is_list(AnnotationOf(c, data[i].k))
             THEN [k |-> data[i].k, v |-> NoneV]
             ELSE data[i]]

_empty_field_to_none(c, data) ==
    [i \in 1..Len(data) |->
        IF ~IsField(c, data[i].k) THEN data[i]
        ELSE IF data[i].v = StrV(<<>>) /\ is_optional(AnnotationOf(c, data[i].k))
             THEN [k |-> data[i].k, v |-> NoneV]
             ELSE data[i]]

\* faulty variant: the normalizer assigns into the mapping it was handed
_empty_field_to_none_inplace(c, data) ==
    [ret |-> _empty_field_to_none(c, data), arg |-> _empty_field_to_none(c, data), same |-> TRUE]

\* One call of the hook: ret is the mapping returned, arg the mapping that was passed in
\* as it is after the call, same tells whether ret is that very object.  The hook starts
\* with data = dict(data), so every assignment goes to the copy.
_empty_field_to_none_call(c, data) ==
    [ret |-> _empty_field_to_none(c, data), arg |-> data, same |-> FALSE]

\* faulty variant: the counts are not seeded with 0 for every member
_collect_counter_values_unseeded(c, data) ==
    IF c._counter_fieldname = NoName THEN data
    ELSE IF HasKey(data, c._counter_fieldname) THEN data
    ELSE LET members == EnumMembers(c._counter_enum)
             popped(key) == ~IsField(c, key) /\ IsEnumValue(c._counter_enum, key)
             found == SelectSeq(members, LAMBDA m : HasKey(data, m.value) /\ popped(m.value))
             counts == [i \in 1..Len(found) |->
                           [k |-> found[i].name, v |-> Get(data, found[i].value)]]
             kept == SelectSeq(data, LAMBDA p : ~popped(p.k))
         IN  Append(kept, [k |-> c._counter_fieldname, v |-> CounterV(counts)])

\* faulty variant: the fold also runs on a row that already holds the counter's key
_collect_counter_values_always_folding(c, data) ==
    IF c._counter_fieldname = NoName THEN data
    ELSE LET members == EnumMembers(c._counter_enum)
             popped(key) == ~IsField(c, key) /\ IsEnumValue(c._counter_enum, key)
             counts == [i \in 1..Len(members) |->
                           [k |-> members[i].name,
                            v |-> IF HasKey(data, members[i].value) /\ popped(members[i].value)
                                  THEN Get(data, members[i].value)
                                  ELSE IntV(0)]]
             kept == SelectSeq(data, LAMBDA p : ~popped(p.k))
         IN  Put(kept, c._counter_fieldname, CounterV(counts))

\* faulty variant: a key that is a declared field is folded too when it equals a token
_collect_counter_values_folding_declared(c, data) ==
    IF c._counter_fieldname = NoName THEN data
    ELSE IF HasKey(data, c._counter_fieldname) THEN data
    ELSE LET members == EnumMembers(c._counter_enum)
             popped(key) == IsEnumValue(c._counter_enum, key)
             counts == [i \in 1..Len(members) |->
                           [k |-> members[i].name,
                            v |-> IF HasKey(data, members[i].value) /\ popped(members[i].value)
                                  THEN Get(data, members[i].value)
                                  ELSE IntV(0)]]
             kept == SelectSeq(data, LAMBDA p : ~popped(p.k))
         IN  Append(kept, [k |-> c._counter_fieldname, v |-> CounterV(counts)])

_collect_counter_values(c, data) ==
    IF c._counter_fieldname = NoName THEN data
    ELSE IF HasKey(data, c._counter_fieldname) THEN data
    ELSE LET members == EnumMembers(c._counter_enum)
             popped(key) == ~IsField(c, key) /\ IsEnumValue(c._counter_enum, key)
             counts == [i \in 1..Len(members) |->
                           [k |-> members[i].name,
                            v |-> IF HasKey(data, members[i].value) /\ popped(members[i].value)
                                  THEN Get(data, members[i].value)
                                  ELSE IntV(0)]]
             kept == SelectSeq(data, LAMBDA p : ~popped(p.k))
         IN  Append(kept, [k |-> c._counter_fieldname, v |-> CounterV(counts)])

\* One call of the hook, as for _empty_field_to_none_call: data = dict(data) comes
\* before the short-circuits, the keys are popped from the copy.
_collect_counter_values_call(c, data) ==
    [ret |-> _collect_counter_values(c, data), arg |-> data, same |-> FALSE]

\* faulty variant: the split is on a comma, whatever the class's delimiter
_split_lists_on_comma(c, value, field_name) ==
    IF value.tag = "str" /\ _is_list_field(c, field_name)
    THEN IF value.s # <<>>
         THEN LET parts == Split(value.s, <<",">>)
              IN  ListV([i \in 1..Len(parts) |->
                           IF field_name \in c._optional_element_fieldnames /\ parts[i] = <<>>
                           THEN NoneV
                           ELSE StrV(parts[i])])
         ELSE ListV(<<>>)
    ELSE value

\* faulty variant: the empty string is split like any other string
_split_lists_no_empty_case(c, value, field_name) ==
    IF value.tag = "str" /\ _is_list_field(c, field_name)
    THEN LET parts == Split(value.s, c.collection_delimiter)
         IN  ListV([i \in 1..Len(parts) |->
                      IF field_name \in c._optional_element_fieldnames /\ parts[i] = <<>>
                      THEN NoneV
                      ELSE StrV(parts[i])])
    ELSE value

\* faulty variant: empty segments are never turned into None
_split_lists_keeping_empty(c, value, field_name) ==
    IF value.tag = "str" /\ _is_list_field(c, field_name)
    THEN IF value.s # <<>>
         THEN LET parts == Split(value.s, c.collection_delimiter)
              IN  ListV([i \in 1..Len(parts) |-> StrV(parts[i])])
         ELSE ListV(<<>>)
    ELSE value

_split_lists(c, value, field_name) ==
    IF value.tag = "str" /\ _is_list_field(c, field_name)
    THEN IF value.s # <<>>
         THEN LET parts == Split(value.s, c.collection_delimiter)
              IN  ListV([i \in 1..Len(parts) |->
                           IF field_name \in c._optional_element_fieldnames /\ parts[i] = <<>>
                           THEN NoneV
                           ELSE StrV(parts[i])])
         ELSE ListV(<<>>)
    ELSE value

\* The generic validator's coercion of one value to its declared type.
RECURSIVE validate_python(_, _)
validate_python(annotation, value) ==
    IF is_optional(annotation)
    THEN IF value.tag = "none" THEN NoneV
         ELSE validate_python(unpack_optional(annotation), value)
    ELSE IF annotation[1] = "type" /\ annotation[2][1] = "str"
    THEN IF value.tag = "str" THEN value ELSE ErrV
    ELSE IF annotation[1] = "type" /\ annotation[2][1] = "int"
    THEN IF value.tag = "int" THEN value
         ELSE IF value.tag = "str" /\ IsIntString(value.s) THEN IntV(IntOf(value.s))
         ELSE ErrV
    ELSE IF annotation[1] = "list"
    THEN IF value.tag # "list" THEN ErrV
         ELSE LET ys == [i \in 1..Len(value.xs) |-> validate_python(annotation[2], value.xs[i])]
              IN  IF \E i \in 1..Len(ys) : ys[i].tag = "err" THEN ErrV ELSE ListV(ys)
    ELSE IF annotation[1] = "Counter"
    THEN IF value.tag # "counter" THEN ErrV
         ELSE LET ys == [i \in 1..Len(value.cnt) |->
                            [k |-> value.cnt[i].k,
                             v |-> validate_python(Plain("int"), value.cnt[i].v)]]
              IN  IF \E i \in 1..Len(ys) : ys[i].v.tag = "err" THEN ErrV ELSE CounterV(ys)
    ELSE ErrV

\* a field declared with a default value (value: int | None = None)
HasDefault(field) == "default" \in DOMAIN field

Failed == [ok |-> FALSE, data |-> <<>>]
Ok(data) == [ok |-> TRUE, data |-> data]

\* cls.model_validate(record): the two row-level "before" hooks, then per field the
\* list split and the coercion; a missing field takes its default, a missing field
\* without default or a failed coercion raises.
model_validate(c, data) ==
    LET folded == _collect_counter_values(c, _empty_field_to_none(c, data))
        fields == c.model_fields
        validated == [i \in 1..Len(fields) |->
                        IF HasKey(folded, fields[i].name)
                        THEN validate_python(fields[i].annotation,
                                             _split_lists(c, Get(folded, fields[i].name),
                                                          fields[i].name))
                        ELSE IF HasDefault(fields[i]) THEN fields[i].default
                        ELSE ErrV]
    IN  IF \E i \in 1..Len(fields) : validated[i].tag = "err" THEN Failed
        ELSE Ok([i \in 1..Len(fields) |-> [k |-> fields[i].name, v |-> validated[i]]])

\* faulty variant: the fold runs before the normalizer
HookCalls_fold_first(c, data) ==
    LET folded == _collect_counter_values(c, data)
        cleaned == _empty_field_to_none(c, folded)
        present == SelectSeq(c.model_fields, LAMBDA f : HasKey(cleaned, f.name))
    IN  <<[fn |-> "_collect_counter_values", arg |-> data, ret |-> folded],
          [fn |-> "_empty_field_to_none", arg |-> folded, ret |-> cleaned]>>
        \o [i \in 1..Len(present) |->
               [fn |-> "_split_lists", field |-> present[i].name,
                value |-> Get(cleaned, present[i].name),
                ret |-> _split_lists(c, Get(cleaned, present[i].name), present[i].name)]]

\* The validators one model_validate call runs, in order.  The "before" model validator
\* of the most derived class (Metric._empty_field_to_none) runs first, then the mixin's
\* (_collect_counter_values), then per field present in the row the "before" field
\* validator _split_lists, whose result goes to the coercion.
HookCalls(c, data) ==
    LET cleaned == _empty_field_to_none(c, data)
        folded == _collect_counter_values(c, cleaned)
        present == SelectSeq(c.model_fields, LAMBDA f : HasKey(folded, f.name))
    IN  <<[fn |-> "_empty_field_to_none", arg |-> data, ret |-> cleaned],
          [fn |-> "_collect_counter_values", arg |-> cleaned, ret |-> folded]>>
        \o [i \in 1..Len(present) |->
               [fn |-> "_split_lists", field |-> present[i].name,
                value |-> Get(folded, present[i].name),
                ret |-> _split_lists(c, Get(folded, present[i].name), present[i].name)]]

\* the mapping the caller handed to model_validate, as it is after the call: the
\* normalizer runs on it, the fold runs on what the normalizer returned
CallerRow(c, data) ==
    LET first == _empty_field_to_none_call(c, data)
        second == _collect_counter_values_call(c, first.ret)
    IN  IF first.same THEN second.arg ELSE first.arg

\* ---------------------------------------------------------- record encode
\* faulty variant: None elements are left out of the joined string
_join_lists_dropping_none(c, value, field_name) ==
    IF value.tag = "list" /\ _is_list_field(c, field_name)
    THEN LET serialized_value == SelectSeq(value.xs, LAMBDA item : item.tag # "none")
             elements == [i \in 1..Len(serialized_value) |-> StrOf(serialized_value[i])]
         IN  StrV(Join(c.collection_delimiter, elements))
    ELSE value

_join_lists(c, value, field_name) ==
    IF value.tag = "list" /\ _is_list_field(c, field_name)
    THEN LET serialized_value == value.xs
             elements == [i \in 1..Len(serialized_value) |->
                             IF serialized_value[i].tag = "none" THEN <<>>
                             ELSE StrOf(serialized_value[i])]
         IN  StrV(Join(c.collection_delimiter, elements))
    ELSE value

RECURSIVE PutCounts(_, _, _)
PutCounts(data, enum, counts) ==
    IF counts = <<>> THEN data
    ELSE PutCounts(Put(data, ValueOf(enum, counts[1].k), counts[1].v), enum, Tail(counts))

RECURSIVE PutCountsByName(_, _)
PutCountsByName(data, counts) ==
    IF counts = <<>> THEN data
    ELSE PutCountsByName(Put(data, counts[1].k, counts[1].v), Tail(counts))

\* faulty variant: the new keys are the members' names, not their values
_pivot_counter_values_by_name(c, data) ==
    IF c._counter_fieldname = NoName THEN data
    ELSE LET counts == Get(data, c._counter_fieldname).cnt
         IN  PutCountsByName(Pop(data, c._counter_fieldname), counts)

_pivot_counter_values(c, data) ==
    IF c._counter_fieldname = NoName THEN data
    ELSE LET counts == Get(data, c._counter_fieldname).cnt
         IN  PutCounts(Pop(data, c._counter_fieldname), c._counter_enum, counts)

\* metric.model_dump(mode="json")
model_dump(c, record) ==
    _pivot_counter_values(c,
        [i \in 1..Len(record) |->
            [k |-> record[i].k, v |-> _join_lists(c, record[i].v, record[i].k)]])

\* faulty variant: the counter field is not swapped for its columns
_header_fieldnames_declared(c) == FieldNames(c)

_header_fieldnames(c) ==
    LET fieldnames == FieldNames(c)
    IN  IF c._counter_fieldname = NoName THEN fieldnames
        ELSE LET members == EnumMembers(c._counter_enum)
             IN  SelectSeq(fieldnames, LAMBDA f : f # c._counter_fieldname)
                 \o [i \in 1..Len(members) |-> members[i].value]

\* csv: the text of one cell (None is written as the empty cell)
CellOf(value) == IF value.tag = "none" THEN <<>> ELSE StrOf(value)

\* DictWriter.writerow(rowdict): one cell per header name, in header order
writerow(fieldnames, rowdict) ==
    [i \in 1..Len(fieldnames) |->
        IF HasKey(rowdict, fieldnames[i]) THEN CellOf(Get(rowdict, fieldnames[i])) ELSE <<>>]

\* DictReader: one row mapping from the header and the cells of a line
RECURSIVE ZipRow(_, _, _)
ZipRow(d, fieldnames, cells) ==
    IF fieldnames = <<>> THEN d
    ELSE ZipRow(Put(d, fieldnames[1], StrV(cells[1])), Tail(fieldnames), Tail(cells))

DictReaderRow(fieldnames, cells) == ZipRow(<<>>, fieldnames, cells)

\* ------------------------------------------------------- classes, inputs
ElementTypes == {Plain("str"), Plain("int")}
Delimiters == {<<",">>, <<";">>}

ListAnnotations ==
    UNION {{ListOf(t), ListOf(OrNone(t)), OrNone(ListOf(t)), Optional(ListOf(t)),
            OrNone(ListOf(OrNone(t)))} : t \in ElementTypes}

\* class M(Metric): values: <annotation>
ListDecl(annotation, delimiter) ==
    [model_fields |-> <<[name |-> "values", annotation |-> annotation]>>,
     collection_delimiter |-> delimiter]

NameField == [name |-> "name", annotation |-> Plain("str")]
CountsField == [name |-> "counts", annotation |-> CounterOf(StrEnum("FakeEnum"))]

\* class M(Metric): name: str; counts: Counter[FakeEnum]
CounterLast == [model_fields |-> <<NameField, CountsField>>, collection_delimiter |-> <<",">>]
\* class M(Metric): counts: Counter[FakeEnum]; name: str
CounterFirst == [model_fields |-> <<CountsField, NameField>>, collection_delimiter |-> <<",">>]
\* class M(Metric): name: str; foo: int; counts: Counter[FakeEnum]  (a field named like a token)
CounterShadowed ==
    [model_fields |-> <<NameField, [name |-> "foo", annotation |-> Plain("int")], CountsField>>,
     collection_delimiter |-> <<",">>]

\* class SimpleMetric(Metric): name: str; count: int
SimpleMetric ==
    [model_fields |-> <<NameField, [name |-> "count", annotation |-> Plain("int")]>>,
     collection_delimiter |-> <<",">>]
\* class MetricWithOptional(Metric): name: str; value: int | None = None
MetricWithOptional ==
    [model_fields |-> <<NameField, [name |-> "value", annotation |-> OrNone(Plain("int")),
                                    default |-> NoneV]>>,
     collection_delimiter |-> <<",">>]

ListClasses == {DefineClass(ListDecl(a, d)) : a \in ListAnnotations, d \in Delimiters}
CounterClasses == {DefineClass(CounterLast), DefineClass(CounterFirst), DefineClass(CounterShadowed)}
ReaderClasses == {DefineClass(SimpleMetric), DefineClass(MetricWithOptional)}
Classes == ListClasses \cup CounterClasses \cup ReaderClasses

\* the text of a cell choice
CellText(choice) ==
    IF choice = "empty" THEN <<>>
    ELSE IF choice = "12" THEN <<"1", "2">>
    ELSE IF choice = "01" THEN <<"0", "1">>
    ELSE IF choice = "-1" THEN <<"-", "1">>
    ELSE <<choice>>

Columns == <<"name", "foo", "bar", "baz", "extra">>
CellChoices(column) ==
    IF column = "name" THEN {"absent", "a"}
    ELSE IF column = "extra" THEN {"absent", "a", "empty"}
    ELSE {"absent", "1", "12", "01", "-1", "a", "empty"}

\* the row mapping that holds the present columns of pick, in the order of columns
RECURSIVE RowOf(_, _)
RowOf(columns, pick) ==
    IF columns = <<>> THEN <<>>
    ELSE IF pick[columns[1]] = "absent" THEN RowOf(Tail(columns), pick)
    ELSE <<[k |-> columns[1], v |-> StrV(CellText(pick[columns[1]]))]>>
         \o RowOf(Tail(columns), pick)

Reverse(q) == [i \in 1..Len(q) |-> q[Len(q) + 1 - i]]
ColumnSet == {Columns[i] : i \in 1..Len(Columns)}
Picks == {pick \in [ColumnSet -> {"absent", "a", "1", "12", "01", "-1", "empty"}] :
             \A col \in ColumnSet : pick[col] \in CellChoices(col)}
CounterRows == {RowOf(Columns, pick) : pick \in Picks}
                   \cup {RowOf(Reverse(Columns), pick) : pick \in Picks}

\* rows for SimpleMetric and MetricWithOptional
ScalarColumns(c) == <<"name", c.model_fields[2].name, "extra">>
ScalarChoices(column) ==
    IF column \in {"name", "extra"} THEN {"absent", "empty", "a"} ELSE {"absent", "empty", "1", "a"}
ScalarPicks(c) ==
    {pick \in [{ScalarColumns(c)[i] : i \in 1..Len(ScalarColumns(c))} -> {"absent", "empty", "1", "a"}] :
        \A i \in 1..Len(ScalarColumns(c)) :
            pick[ScalarColumns(c)[i]] \in ScalarChoices(ScalarColumns(c)[i])}
ScalarRows(c) == {RowOf(ScalarColumns(c), pick) : pick \in ScalarPicks(c)}
                     \cup {RowOf(Reverse(ScalarColumns(c)), pick) : pick \in ScalarPicks(c)}

IsListClass(c) == c._list_fieldnames # {}
IsCounterClass(c) == c._counter_fieldname # NoName

CountValues == {"absent", "0", "1", "2", "-1"}
MemberNames == <<"FOO", "BAR", "BAZ">>
RECURSIVE CountsOf(_, _)
CountsOf(members, pick) ==
    IF members = <<>> THEN <<>>
    ELSE IF pick[members[1]] = "absent" THEN CountsOf(Tail(members), pick)
    ELSE <<[k |-> members[1], v |-> IntV(IntOf(CellText(pick[members[1]])))]>>
         \o CountsOf(Tail(members), pick)

Counters ==
    LET picks == [{MemberNames[i] : i \in 1..Len(MemberNames)} -> CountValues]
    IN  {CounterV(CountsOf(MemberNames, pick)) : pick \in picks}
            \cup {CounterV(CountsOf(Reverse(MemberNames), pick)) : pick \in picks}

\* rows that supply the counter under its own field name, as the constructor call
\* FakeMetric(name=..., counts=Counter(...)) hands them to the validators
SuppliedRows ==
    {<<[k |-> "name", v |-> StrV(<<"a">>)], [k |-> "foo", v |-> StrV(<<"1">>)],
       [k |-> "counts", v |-> counter]>> : counter \in Counters}

\* rows, as DictReader or a constructor call hands them to model_validate
TextInputs(c) ==
    IF IsListClass(c)
    THEN {<<[k |-> "values", v |-> StrV(x)]>> : x \in StringsUpTo(MaxCellLen)}
    ELSE IF IsCounterClass(c) THEN CounterRows \cup SuppliedRows
    ELSE ScalarRows(c)

IntValues == {0, 7, 12}
ListFieldAnnotation(c) == AnnotationOf(c, "values")
InnerList(annotation) ==
    IF is_optional(annotation) THEN unpack_optional(annotation) ELSE annotation
ElementType(annotation) ==
    LET e == get_args(InnerList(annotation))[1]
    IN  IF is_optional(e) THEN unpack_optional(e) ELSE e

\* the elements a list[T] or list[T | None] field can hold
ElementValues(annotation) ==
    (IF ElementType(annotation)[2][1] = "int"
     THEN {IntV(i) : i \in IntValues}
     ELSE {StrV(x) : x \in StringsUpTo(MaxElemLen)})
    \cup (IF has_optional_elements(annotation) THEN {NoneV} ELSE {})

\* records, as the program holds them
ValueInputs(c) ==
    IF IsListClass(c)
    THEN {<<[k |-> "values", v |-> ListV(xs)]>> :
              xs \in SeqsUpTo(ElementValues(ListFieldAnnotation(c)), MaxElems)}
         \cup (IF is_optional(ListFieldAnnotation(c))
               THEN {<<[k |-> "values", v |-> NoneV]>>} ELSE {})
    ELSE IF IsCounterClass(c)
    THEN {[i \in 1..Len(c.model_fields) |->
              [k |-> c.model_fields[i].name,
               v |-> IF c.model_fields[i].name = "counts" THEN counter
                     ELSE IF c.model_fields[i].name = "foo" THEN IntV(7)
                     ELSE StrV(<<"a">>)]] : counter \in Counters}
    ELSE {<<[k |-> "name", v |-> StrV(name)], [k |-> c.model_fields[2].name, v |-> count]>> :
              name \in {<<>>, <<"a">>},
              count \in {IntV(7)} \cup (IF is_optional(c.model_fields[2].annotation)
                                        THEN {NoneV} ELSE {})}

\* ------------------------------------------------------------ the program
VARIABLES
    cls,            \* the Metric subclass in use
    decl, raised,   \* a class statement being executed, the exception it raised
    mode, input, mid, out, pc,                      \* one row or record through decode and encode
    normalized, caller_row,                                \* the normalizer's output, the caller's row after decode
    hooks,          \* the validator calls of the last decode, in the order they ran
    wpc, wfout, wfault, wfieldnames, wlines, werr,  \* a MetricWriter and its file
    wwritten, wcall,    \* history: the records written so far, the last write or writeall call
    rheader, rfile, rpos, ryielded, rstate, rfin,   \* a Metric.read generator and its file
    anno, tpc, tret,                                \* a call of a typing helper: argument, position, outcome
    registry,       \* the Metric subclasses of a program that uses several
    defined,        \* history: their schema metadata as computed at definition
    history         \* history: the decode and encode calls made, in order

defineVars == <<decl, raised>>
codecVars == <<mode, input, mid, out, pc, normalized, caller_row, hooks>>
writerVars == <<wpc, wfout, wfault, wfieldnames, wlines, werr, wwritten, wcall>>
readerVars == <<rheader, rfile, rpos, ryielded, rstate, rfin>>
typingVars == <<anno, tpc, tret>>
sharedVars == <<registry, defined, history>>
vars == <<cls, defineVars, codecVars, writerVars, readerVars, typingVars, sharedVars>>

\* no typing helper is being called
NoReturn == [raised |-> "", value |-> <<>>]
TypingIdle == anno = <<>> /\ tpc = "idle" /\ tret = NoReturn

\* no program with several classes is running
SharedIdle == registry = <<>> /\ defined = <<>> /\ history = <<>>

\* the class in use was defined before, no class statement is being executed
DefineIdle == decl = <<>> /\ raised = ""

CodecIdle == mode = "idle" /\ input = <<>> /\ mid = [ok |-> FALSE, data |-> <<>>]
                 /\ out = [ok |-> FALSE, data |-> <<>>] /\ pc = "idle"
                 /\ normalized = <<>> /\ caller_row = <<>> /\ hooks = <<>>
NoCall == [op |-> "none", metrics |-> <<>>, raised |-> "", fout |-> "none"]
WriterIdle == wpc = "idle" /\ wfout = "none" /\ wfault = "none" /\ wfieldnames = <<>>
                  /\ wlines = <<>> /\ werr = ""
                  /\ wwritten = <<>> /\ wcall = NoCall
ReaderIdle == rheader = <<>> /\ rfile = <<>> /\ rpos = 0 /\ ryielded = <<>>
                  /\ rstate = "idle" /\ rfin = "none"

\* MetricWriter.write: model_dump, then the text csv writes for each value
WriteCells(c, record) ==
    LET data == model_dump(c, record)
    IN  [i \in 1..Len(data) |-> [k |-> data[i].k, v |-> StrV(CellOf(data[i].v))]]

Init ==
    /\ cls \in Classes
    /\ DefineIdle
    /\ TypingIdle
    /\ SharedIdle
    /\ mode \in {"text", "value"}
    /\ input \in IF mode = "text" THEN TextInputs(cls) ELSE ValueInputs(cls)
    /\ mid = Failed
    /\ out = Failed
    /\ pc = "start"
    /\ normalized = <<>>
    /\ caller_row = <<>>
    /\ hooks = <<>>
    /\ WriterIdle
    /\ ReaderIdle

\* a row is decoded: cls.model_validate(row)
Decode ==
    /\ pc = IF mode = "text" THEN "start" ELSE "encoded"
    /\ LET record == IF mode = "text" THEN input ELSE mid.data
           result == model_validate(cls, record)
       IN  /\ normalized' = _empty_field_to_none_call(cls, record).ret
           /\ caller_row' = CallerRow(cls, record)
           /\ hooks' = HookCalls(cls, record)
           /\ IF mode = "text"
              THEN /\ mid' = result
                   /\ pc' = IF result.ok THEN "decoded" ELSE "rejected"
                   /\ out' = out
              ELSE /\ out' = result
                   /\ pc' = IF result.ok THEN "done" ELSE "rejected"
                   /\ mid' = mid
    /\ UNCHANGED <<cls, typingVars, sharedVars, defineVars, mode, input, writerVars, readerVars>>

\* a record is encoded: the row MetricWriter.write hands to csv
Encode ==
    /\ pc = IF mode = "text" THEN "decoded" ELSE "start"
    /\ LET result == Ok(WriteCells(cls, IF mode = "text" THEN mid.data ELSE input))
       IN  IF mode = "text"
           THEN /\ out' = result
                /\ pc' = "done"
                /\ mid' = mid
           ELSE /\ mid' = result
                /\ pc' = "encoded"
                /\ out' = out
    /\ UNCHANGED <<cls, typingVars, sharedVars, defineVars, mode, input, normalized, caller_row, hooks, writerVars, readerVars>>

Next == Decode \/ Encode

Spec == Init /\ [][Next]_vars

\* ------------------------------------------------------ list round trips
Delimiter == cls.collection_delimiter
FieldValue(data) == Get(data, "values")
\* the text an element is written as
ElementText(item) == IF item.tag = "none" THEN <<>> ELSE StrOf(item)
Texts(elems) == [i \in 1..Len(elems) |-> ElementText(elems[i])]
NoDelimiterIn(elems) == \A i \in 1..Len(elems) : ~Contains(ElementText(elems[i]), Delimiter)

ValueSideCase ==
    /\ mode = "value" /\ IsListClass(cls) /\ pc \in {"done", "rejected"}
    /\ FieldValue(input).tag = "list"
    /\ NoDelimiterIn(FieldValue(input).xs)

\* C1 as stated: decode(encode(xs)) = xs for every sequence xs of elements whose
\* serialized forms do not contain the delimiter.
C1_ValueRoundTrip_AsStated == ValueSideCase => (pc = "done" /\ out.data = input)

\* the sequences the code does not give back
WrittenAsEmptyCell(xs) == Len(xs) = 1 /\ ElementText(xs[1]) = <<>>
C1_Excluded(annotation, xs) ==
    \/ WrittenAsEmptyCell(xs)
    \/ is_optional(annotation) /\ xs = <<>>
    \/ has_optional_elements(annotation) /\ \E i \in 1..Len(xs) : xs[i] = StrV(<<>>)

\* C1 (amended): decode(encode(xs)) = xs for every list field with str or int elements
\* and every xs whose elements' serialized forms do not contain the delimiter, except a
\* one-element xs whose element is the empty string or absent, the empty xs of an
\* Optional(List(T)) field, and an xs with an empty-string element in a
\* List(Optional(T)) field.
C1_ValueRoundTrip ==
    (ValueSideCase /\ ~C1_Excluded(ListFieldAnnotation(cls), FieldValue(input).xs))
        => (pc = "done" /\ out.data = input)

C1_Witness ==
    /\ ValueSideCase /\ pc = "done" /\ out.data = input
    /\ Len(FieldValue(input).xs) = MaxElems
    /\ \E i \in 1..MaxElems : FieldValue(input).xs[i].tag = "none"

TextDone == mode = "text" /\ IsListClass(cls) /\ pc = "done"
IntElements(annotation) == ElementType(annotation)[2][1] = "int"
\* a decimal numeral as str(int) writes it: digits only, no leading zero
CanonicalNumeral(s) ==
    /\ Len(s) > 0
    /\ \A i \in 1..Len(s) : IsDigit(s[i])
    /\ Len(s) > 1 => s[1] # "0"
Segments(x) == Split(x, cls.collection_delimiter)

\* C2 as stated: encode(decode(x)) = x for every list field and every raw cell x.
C2_TextRoundTrip_AsStated == TextDone => out.data = input

\* C2 (amended): encode(decode(x)) = x for every list field with str elements and
\* every raw cell x, and for every list field with int elements and every raw cell x
\* that decodes and whose non-empty segments are decimal numerals written as the
\* string form of an int writes them (digits only, no leading zero).
C2_TextRoundTrip ==
    (TextDone /\ (IntElements(ListFieldAnnotation(cls)) =>
                     \A i \in 1..Len(Segments(FieldValue(input).s)) :
                         LET segment == Segments(FieldValue(input).s)[i]
                         IN  segment = <<>> \/ CanonicalNumeral(segment)))
        => out.data = input

C2_Witness ==
    /\ TextDone /\ out.data = input
    /\ Len(FieldValue(mid.data).xs) = MaxCellLen
    /\ FieldValue(mid.data).xs[1].tag = "str"
    /\ FieldValue(mid.data).xs[MaxCellLen - 1] = StrV(<<>>)

TextSideCase == mode = "text" /\ IsListClass(cls) /\ pc \in {"decoded", "done", "rejected"}
RawCell == FieldValue(input).s

\* C3: a List(T) field (not optional) decodes the empty string to the empty sequence.
C3_EmptyStringIsEmptyList ==
    (TextSideCase /\ ~is_optional(ListFieldAnnotation(cls)) /\ RawCell = <<>>)
        => (mid.ok /\ FieldValue(mid.data) = ListV(<<>>))

C3_Witness ==
    /\ TextSideCase /\ ~is_optional(ListFieldAnnotation(cls)) /\ RawCell = <<>>
    /\ pc = "decoded" /\ FieldValue(mid.data).xs = <<>>

\* the element is the segment: absent for an empty segment, the int a numeral
\* denotes, or the segment's text
IsSegment(item, segment) ==
    IF item.tag = "none" THEN segment = <<>>
    ELSE IF item.tag = "int" THEN IsIntString(segment) /\ item.n = IntOf(segment)
    ELSE item.tag = "str" /\ item.s = segment

\* the elements are the delimiter-separated segments of x, position by position
IsSegmentsOf(elems, x) ==
    /\ Len(elems) = Len(Segments(x))
    /\ \A i \in 1..Len(elems) : IsSegment(elems[i], Segments(x)[i])

\* C4: an Optional(List(T)) field decodes the empty string to absent, and a non-empty
\* string to the sequence of its delimiter-separated segments.
C4_OptionalListDecode ==
    (TextSideCase /\ is_optional(ListFieldAnnotation(cls))
                  /\ ~has_optional_elements(ListFieldAnnotation(cls)))
        => IF RawCell = <<>>
           THEN mid.ok /\ FieldValue(mid.data) = NoneV
           ELSE IF mid.ok
                THEN /\ FieldValue(mid.data).tag = "list"
                     /\ IsSegmentsOf(FieldValue(mid.data).xs, RawCell)
                     /\ \A i \in 1..Len(FieldValue(mid.data).xs) :
                            FieldValue(mid.data).xs[i].tag # "none"
                ELSE IntElements(ListFieldAnnotation(cls))

C4_WitnessAbsent ==
    /\ TextSideCase /\ is_optional(ListFieldAnnotation(cls)) /\ RawCell = <<>>
    /\ pc = "decoded" /\ FieldValue(mid.data) = NoneV

C4_WitnessSplit ==
    /\ TextSideCase /\ is_optional(ListFieldAnnotation(cls))
    /\ ~has_optional_elements(ListFieldAnnotation(cls))
    /\ pc = "decoded" /\ FieldValue(mid.data).tag = "list"
    /\ Len(FieldValue(mid.data).xs) = MaxCellLen - 1

C4_Witness == C4_WitnessAbsent

\* C5: in a List(Optional(T)) field decoding maps every empty segment to absent and
\* keeps every other segment at its position, encoding writes absent as the empty
\* string and every other element as its string form, joined by the delimiter; with
\* elements that are not optional, empty segments stay empty strings.
C5_OptionalElements ==
    /\ (TextSideCase /\ mid.ok /\ RawCell # <<>> /\ FieldValue(mid.data).tag = "list")
        => /\ IsSegmentsOf(FieldValue(mid.data).xs, RawCell)
           /\ \A i \in 1..Len(FieldValue(mid.data).xs) :
                 LET item == FieldValue(mid.data).xs[i]
                     segment == Split(RawCell, Delimiter)[i]
                 IN  IF has_optional_elements(ListFieldAnnotation(cls))
                     THEN item.tag = "none" <=> segment = <<>>
                     ELSE item.tag # "none"
    /\ (mode = "value" /\ IsListClass(cls) /\ pc \in {"encoded", "done", "rejected"}
            /\ FieldValue(input).tag = "list" /\ FieldValue(input).xs # <<>>
            /\ NoDelimiterIn(FieldValue(input).xs))
        => /\ FieldValue(mid.data).tag = "str"
           /\ Split(FieldValue(mid.data).s, Delimiter) = Texts(FieldValue(input).xs)

C5_Witness ==
    /\ TextSideCase /\ pc = "done" /\ has_optional_elements(ListFieldAnnotation(cls))
    /\ RawCell = <<"1", ",", ",">>
    /\ FieldValue(mid.data).xs = <<IntV(1), NoneV, NoneV>>
    /\ FieldValue(out.data).s = RawCell

C5_WitnessEncode ==
    /\ mode = "value" /\ IsListClass(cls) /\ pc = "encoded"
    /\ FieldValue(input).xs = <<IntV(7), NoneV>>
    /\ FieldValue(mid.data).s = <<"7", ",">>

\* ------------------------------------------------------ counter columns
CounterTextCase == mode = "text" /\ IsCounterClass(cls) /\ pc \in {"decoded", "done"}
\* the row holds columns only, not the counter under its own field name
WideTextCase == CounterTextCase /\ ~HasKey(input, cls._counter_fieldname)
Members == EnumMembers(cls._counter_enum)
Tokens == [i \in 1..Len(Members) |-> Members[i].value]
Counts == Get(mid.data, cls._counter_fieldname).cnt
\* the count a raw cell holds
CountIn(row, token) == IntV(IntOf(Get(row, token).s))

\* C6 as stated: the accumulator holds every member, with the supplied count where the
\* member's column is present and 0 where it is missing.
C6_MissingColumns_AsStated ==
    CounterTextCase =>
        /\ Len(Counts) = Len(Members)
        /\ \A i \in 1..Len(Members) :
              /\ HasKey(Counts, Members[i].name)
              /\ Get(Counts, Members[i].name) =
                    IF HasKey(input, Tokens[i]) THEN CountIn(input, Tokens[i]) ELSE IntV(0)

\* C6 (amended): for a row that does not hold the accumulator under its own field name,
\* the accumulator holds every member, with the supplied count where the member's column
\* is present and its token is not a declared field name, and 0 for every other member.
C6_MissingColumns ==
    WideTextCase =>
        /\ Len(Counts) = Len(Members)
        /\ \A i \in 1..Len(Members) :
              /\ HasKey(Counts, Members[i].name)
              /\ Get(Counts, Members[i].name) =
                    IF HasKey(input, Tokens[i]) /\ ~IsField(cls, Tokens[i])
                    THEN CountIn(input, Tokens[i])
                    ELSE IntV(0)

C6_Witness ==
    /\ CounterTextCase /\ pc = "decoded"
    /\ HasKey(input, "bar") /\ ~HasKey(input, "foo") /\ ~HasKey(input, "baz")
    /\ Counts = << [k |-> "FOO", v |-> IntV(0)],
                   [k |-> "BAR", v |-> IntV(12)],
                   [k |-> "BAZ", v |-> IntV(0)] >>

\* the enum-token columns of a row, with the counts their cells hold
TokenPairs(row) ==
    {<<row[i].k, IntOf(row[i].v.s)>> :
        i \in {j \in 1..Len(row) : IsEnumValue(cls._counter_enum, row[j].k)}}
TokenColumns(row) == SelectSeq(KeySeq(row), LAMBDA key : IsEnumValue(cls._counter_enum, key))
FreeTokens == SelectSeq(Tokens, LAMBDA token : ~IsField(cls, token))

\* C7 as stated: decode then encode gives back exactly the row's enum-token columns
\* and counts, the token columns in enum declaration order.
C7_CounterRoundTrip_AsStated ==
    (CounterTextCase /\ pc = "done") =>
        /\ TokenPairs(out.data) = TokenPairs(input)
        /\ TokenColumns(out.data) = SelectSeq(Tokens, LAMBDA token : HasKey(input, token))

\* C7 (amended): for a row that does not hold the accumulator under its own field name,
\* decode then encode gives a row with one column per enum member; a
\* member whose token is not a declared field name carries the row's original count
\* when the row had that column and 0 otherwise, and these columns come in enum
\* declaration order after the declared fields; so a row that has a column for every
\* enum member, none of them a declared field name, gets its token columns back exactly.
C7_CounterRoundTrip ==
    (WideTextCase /\ pc = "done") =>
        /\ \A i \in 1..Len(Tokens) : HasKey(out.data, Tokens[i])
        /\ \A i \in 1..Len(Tokens) :
              ~IsField(cls, Tokens[i]) =>
                  IntOf(Get(out.data, Tokens[i]).s) =
                      IF HasKey(input, Tokens[i]) THEN IntOf(Get(input, Tokens[i]).s) ELSE 0
        /\ SubSeq(KeySeq(out.data), Len(out.data) - Len(FreeTokens) + 1, Len(out.data)) = FreeTokens
        /\ ((FreeTokens = Tokens /\ \A i \in 1..Len(Tokens) : HasKey(input, Tokens[i]))
               => /\ TokenPairs(out.data) = TokenPairs(input)
                  /\ TokenColumns(out.data) = Tokens)

C7_Witness ==
    /\ CounterTextCase /\ pc = "done"
    /\ KeySeq(input) = <<"extra", "baz", "bar", "foo", "name">>
    /\ Get(input, "foo").s = <<"1", "2">> /\ Get(input, "bar").s = <<"1">>
    /\ KeySeq(out.data) = <<"name", "foo", "bar", "baz">>
    /\ TokenPairs(out.data) = TokenPairs(input)

\* ------------------------------------------------------------ MetricWriter
\* the step of __init__ that raises, if any
WriterFaults == {"none", "open", "_header_fieldnames", "writeheader"}

\* a few records of class c for a writer to write
WriterRecords(c) ==
    IF IsListClass(c)
    THEN {r \in ValueInputs(c) :
             FieldValue(r).tag = "list" =>
                 /\ Len(FieldValue(r).xs) <= 1
                 /\ \A i \in 1..Len(FieldValue(r).xs) :
                        FieldValue(r).xs[i] \in {NoneV, StrV(<<"a">>), IntV(7)}}
    ELSE IF IsCounterClass(c)
    THEN {r \in ValueInputs(c) :
             LET counts == Get(r, "counts").cnt
             IN  /\ KeySeq(counts) = MemberNames
                 /\ counts[1].v # IntV(0) /\ counts[2].v = IntV(0) /\ counts[3].v = IntV(2)}
    ELSE ValueInputs(c)

InitWriter ==
    /\ cls \in Classes
    /\ DefineIdle
    /\ TypingIdle
    /\ SharedIdle
    /\ wfault \in WriterFaults
    /\ wpc = "new"
    /\ wfout = "none"
    /\ wfieldnames = <<>>
    /\ wlines = <<>>
    /\ werr = ""
    /\ wwritten = <<>>
    /\ wcall = NoCall
    /\ CodecIdle
    /\ ReaderIdle

\* __init__: self._fout = Path(filename).open("w", encoding="utf-8")
WOpen ==
    /\ wpc = "new"
    /\ IF wfault = "open"
       THEN wpc' = "failed" /\ werr' = "OSError" /\ UNCHANGED <<wfout, wlines>>
       ELSE wpc' = "opened" /\ wfout' = "open" /\ wlines' = <<>> /\ werr' = werr
    /\ UNCHANGED <<cls, typingVars, sharedVars, defineVars, wfault, wfieldnames, wwritten, wcall, codecVars, readerVars>>

\* __init__: self._writer = DictWriter(f, fieldnames=metric_class._header_fieldnames(), ...)
WFieldnames ==
    /\ wpc = "opened"
    /\ IF wfault = "_header_fieldnames"
       THEN wpc' = "failed" /\ werr' = "ValueError" /\ UNCHANGED <<wfout, wfieldnames>>
       ELSE /\ wpc' = "constructed"
            /\ wfieldnames' = _header_fieldnames(cls)
            /\ UNCHANGED <<wfout, werr>>
    /\ UNCHANGED <<cls, typingVars, sharedVars, defineVars, wfault, wlines, wwritten, wcall, codecVars, readerVars>>

\* __init__: self._writer.writeheader()
WWriteHeader ==
    /\ wpc = "constructed"
    /\ IF wfault = "writeheader"
       THEN wpc' = "failed" /\ werr' = "OSError" /\ UNCHANGED <<wfout, wlines>>
       ELSE wpc' = "ready" /\ wlines' = <<wfieldnames>> /\ UNCHANGED <<wfout, werr>>
    /\ UNCHANGED <<cls, typingVars, sharedVars, defineVars, wfault, wfieldnames, wwritten, wcall, codecVars, readerVars>>

\* the writer object: its file handle's state, the DictWriter's fieldnames, the file's
\* lines, and the exception the last call raised
Writer == [fout |-> wfout, fieldnames |-> wfieldnames, lines |-> wlines, err |-> werr]

\* write(metric): self._writer.writerow(metric.model_dump()), one row; on a closed file
\* the csv writer raises ValueError
\* faulty variant: the row is written whatever the state of the handle
write_unchecked(c, w, metric) ==
    [w EXCEPT !.lines = Append(@, writerow(w.fieldnames, model_dump(c, metric))),
              !.err = ""]

write(c, w, metric) ==
    IF w.fout = "open"
    THEN [w EXCEPT !.lines = Append(@, writerow(w.fieldnames, model_dump(c, metric))),
                   !.err = ""]
    ELSE [w EXCEPT !.err = "ValueError"]

\* faulty variant: only the first metric is written
writeall_first_only(c, w, metrics) ==
    IF metrics = <<>> THEN w ELSE write(c, w, Head(metrics))

\* writeall(metrics): for metric in metrics: self.write(metric); an exception of write
\* ends the loop
RECURSIVE writeall(_, _, _)
writeall(c, w, metrics) ==
    IF metrics = <<>> THEN w
    ELSE LET w1 == write(c, w, Head(metrics))
         IN  IF w1.err # "" THEN w1 ELSE writeall(c, w1, Tail(metrics))

\* the iterables handed to writeall
MaxBatch == 2
Batches(c) == SeqsUpTo(WriterRecords(c), MaxBatch)

WWrite ==
    /\ wpc = "ready"
    /\ Len(wlines) <= MaxRows
    /\ \E metric \in WriterRecords(cls) :
          LET w == write(cls, Writer, metric)
          IN  /\ wlines' = w.lines
              /\ werr' = w.err
              /\ wwritten' = IF w.err = "" THEN Append(wwritten, metric) ELSE wwritten
              /\ wcall' = [op |-> "write", metrics |-> <<metric>>,
                           raised |-> w.err, fout |-> wfout]
    /\ UNCHANGED <<cls, typingVars, sharedVars, defineVars, wpc, wfout, wfault, wfieldnames, codecVars, readerVars>>

WWriteAll ==
    /\ wpc = "ready"
    /\ \E metrics \in Batches(cls) :
          LET w == writeall(cls, [Writer EXCEPT !.err = ""], metrics)
          IN  /\ Len(wlines) + Len(metrics) <= MaxRows + 1
              /\ wlines' = w.lines
              /\ werr' = w.err
              /\ wwritten' = IF w.err = "" THEN wwritten \o metrics ELSE wwritten
              /\ wcall' = [op |-> "writeall", metrics |-> metrics,
                           raised |-> w.err, fout |-> wfout]
    /\ UNCHANGED <<cls, typingVars, sharedVars, defineVars, wpc, wfout, wfault, wfieldnames, codecVars, readerVars>>

\* close(), also through __exit__
WClose ==
    /\ wpc = "ready"
    /\ wfout = "open"
    /\ wfout' = "closed"
    /\ UNCHANGED <<cls, typingVars, sharedVars, defineVars, wpc, wfault, wfieldnames, wlines, werr, wwritten, wcall, codecVars, readerVars>>

NextWriter == WOpen \/ WFieldnames \/ WWriteHeader \/ WWrite \/ WWriteAll \/ WClose

SpecWriter == InitWriter /\ [][NextWriter]_vars

HeaderDerived == wpc \in {"constructed", "ready"}
Declared == FieldNames(cls)
HasCounter == cls._counter_fieldname # NoName
CounterIndex == CHOOSE i \in 1..Len(Declared) : Declared[i] = cls._counter_fieldname

\* the declared names with the counter field's name replaced, where it stands, by the tokens
RECURSIVE ReplacedInPlace(_)
ReplacedInPlace(names) ==
    IF names = <<>> THEN <<>>
    ELSE (IF names[1] = cls._counter_fieldname THEN Tokens ELSE <<names[1]>>)
         \o ReplacedInPlace(Tail(names))

\* C8 as stated: the header names are the declared names with the Accumulator field's
\* name replaced, at the position where it is declared, by the enum tokens.
C8_HeaderFieldnames_AsStated == HeaderDerived => wfieldnames = ReplacedInPlace(Declared)

\* C8 (amended): the header names are the declared names without the Accumulator
\* field's name, in declaration order, followed by one name per enum member (its
\* token) in enum declaration order; without an Accumulator field they are the
\* declared names.
C8_HeaderFieldnames ==
    HeaderDerived =>
        IF ~HasCounter THEN wfieldnames = Declared
        ELSE /\ Len(wfieldnames) = Len(Declared) - 1 + Len(Tokens)
             /\ \A i \in 1..Len(wfieldnames) :
                   wfieldnames[i] =
                       IF i < CounterIndex THEN Declared[i]
                       ELSE IF i < Len(Declared) THEN Declared[i + 1]
                       ELSE Tokens[i - Len(Declared) + 1]

C8_Witness ==
    /\ wpc = "ready" /\ HasCounter /\ CounterIndex = 1
    /\ wfieldnames = <<"name", "foo", "bar", "baz">>
    /\ wlines = <<wfieldnames>>

\* C9: when __init__ fails after the file was opened, the handle has been closed.
C9_ClosedOnFailedInit == (wpc = "failed" /\ wfault # "open") => wfout = "closed"

\* ------------------------------------------------------------ Metric.read
\* the header line: the declared columns, or only the first of them
Headers(c) == {FieldNames(c), SubSeq(FieldNames(c), 1, 1)}
CountCells == {<<>>, <<"1">>, <<"a">>}
Lines(header) ==
    IF Len(header) = 1 THEN {<<<<"a">>>>} ELSE {<<<<"a">>, cell>> : cell \in CountCells}

InitReader ==
    /\ cls \in ReaderClasses
    /\ DefineIdle
    /\ TypingIdle
    /\ SharedIdle
    /\ rheader \in Headers(cls)
    /\ rfile \in SeqsUpTo(Lines(rheader), MaxRows)
    /\ rpos = 0
    /\ ryielded = <<>>
    /\ rstate = "created"
    /\ rfin = "none"
    /\ CodecIdle
    /\ WriterIdle

\* faulty variant: a row that fails validation is skipped and the iteration goes on
read_next_skipping(c, header, rows, pos) ==
    IF pos = Len(rows)
    THEN [state |-> "exhausted", fin |-> "closed", pos |-> pos, yielded |-> <<>>]
    ELSE LET result == model_validate(c, DictReaderRow(header, rows[pos + 1]))
         IN  [state |-> "suspended", fin |-> "open", pos |-> pos + 1,
              yielded |-> IF result.ok THEN <<result.data>> ELSE <<>>]

\* faulty variant: the file is opened without the with-block, so an exception leaves it open
read_next_leaking(c, header, rows, pos) ==
    IF pos = Len(rows)
    THEN [state |-> "exhausted", fin |-> "closed", pos |-> pos, yielded |-> <<>>]
    ELSE LET result == model_validate(c, DictReaderRow(header, rows[pos + 1]))
         IN  IF result.ok
             THEN [state |-> "suspended", fin |-> "open", pos |-> pos + 1,
                   yielded |-> <<result.data>>]
             ELSE [state |-> "raised", fin |-> "open", pos |-> pos + 1, yielded |-> <<>>]

\* One next() on the generator of read(): the body runs to its next yield.  The file is
\* opened when the body starts; the with-block closes it when the body is left, by
\* exhaustion or by the exception of model_validate.
read_next(c, header, rows, pos) ==
    IF pos = Len(rows)
    THEN [state |-> "exhausted", fin |-> "closed", pos |-> pos, yielded |-> <<>>]
    ELSE LET result == model_validate(c, DictReaderRow(header, rows[pos + 1]))
         IN  IF result.ok
             THEN [state |-> "suspended", fin |-> "open", pos |-> pos + 1,
                   yielded |-> <<result.data>>]
             ELSE [state |-> "raised", fin |-> "closed", pos |-> pos + 1, yielded |-> <<>>]

RNext ==
    /\ rstate \in {"created", "suspended"}
    /\ LET step == read_next(cls, rheader, rfile, rpos)
       IN  /\ rstate' = step.state
           /\ rfin' = step.fin
           /\ rpos' = step.pos
           /\ ryielded' = ryielded \o step.yielded
    /\ UNCHANGED <<cls, typingVars, sharedVars, defineVars, rheader, rfile, codecVars, writerVars>>

\* the consumer stops early: close() on the generator raises GeneratorExit at the yield
RClose ==
    /\ rstate \in {"created", "suspended"}
    /\ rstate' = "closed"
    /\ rfin' = IF rfin = "open" THEN "closed" ELSE rfin
    /\ UNCHANGED <<cls, typingVars, sharedVars, defineVars, rheader, rfile, rpos, ryielded, codecVars, writerVars>>

NextReader == RNext \/ RClose

SpecReader == InitReader /\ [][NextReader]_vars

RowAt(i) == DictReaderRow(rheader, rfile[i])
Valid(i) == model_validate(cls, RowAt(i)).ok
\* the first data row that fails validation, Len(rfile) + 1 when none does
FirstFailing ==
    CHOOSE k \in 1..(Len(rfile) + 1) :
        /\ \A i \in 1..(k - 1) : Valid(i)
        /\ k <= Len(rfile) => ~Valid(k)

\* C10: with the k-th data row the first to fail validation, the stream yields the
\* records of rows 1..k-1 in file order, raises when row k is pulled, and yields
\* nothing for row k or any later row; what was yielded stays as it was.
C10_ReadStopsAtFailingRow ==
    rstate # "idle" =>
        /\ Len(ryielded) <= FirstFailing - 1
        /\ \A i \in 1..Len(ryielded) : ryielded[i] = model_validate(cls, RowAt(i)).data
        /\ rstate = "raised" <=> (rpos = FirstFailing /\ FirstFailing <= Len(rfile))
        /\ rstate = "raised" => Len(ryielded) = FirstFailing - 1
        /\ rstate = "exhausted" => (FirstFailing = Len(rfile) + 1 /\ Len(ryielded) = Len(rfile))

C10_Witness ==
    /\ rstate = "raised" /\ Len(rfile) = MaxRows /\ FirstFailing = MaxRows - 1
    /\ Len(ryielded) = MaxRows - 2 /\ Valid(MaxRows)

\* C11: in every final state of a read (the rows exhausted, a row raised, the generator
\* closed by a consumer that stopped early) the file handle is not open; it is open
\* only while the generator is suspended at a yield.
C11_HandleClosed ==
    /\ rstate \in {"exhausted", "raised", "closed"} => rfin # "open"
    /\ rfin = "open" => rstate = "suspended"
    /\ rstate \in {"exhausted", "raised"} => rfin = "closed"

C11_Witness == rstate = "raised" /\ rfin = "closed" /\ Len(ryielded) = MaxRows - 1

C11_WitnessEarlyStop == rstate = "closed" /\ rfin = "closed" /\ rpos = 1 /\ Len(rfile) = MaxRows

\* ------------------------------------------------------- class definition
\* class M(Metric): name: str; foo_counts: Counter[FakeEnum]; bar_counts: Counter[FakeEnum]
TwoCounters ==
    [model_fields |-> <<NameField,
                        [name |-> "foo_counts", annotation |-> CounterOf(StrEnum("FakeEnum"))],
                        [name |-> "bar_counts", annotation |-> CounterOf(StrEnum("FakeEnum"))]>>,
     collection_delimiter |-> <<",">>]
\* class M(Metric): name: str; counts: <annotation>
CounterDecl(annotation, delimiter) ==
    [model_fields |-> <<NameField, [name |-> "counts", annotation |-> annotation]>>,
     collection_delimiter |-> delimiter]
\* class M(Metric): name: str; counts: Counter[FakeEnum]; more: <annotation>
CounterAnd(annotation) ==
    [model_fields |-> <<NameField, CountsField, [name |-> "more", annotation |-> annotation]>>,
     collection_delimiter |-> <<",">>]

CounterAnnotations ==
    {CounterOf(StrEnum("FakeEnum")), OrNone(CounterOf(StrEnum("FakeEnum"))),
     Optional(CounterOf(StrEnum("FakeEnum"))), CounterOf(Plain("str")), CounterOf(Plain("int")),
     OrNone(CounterOf(Plain("str")))}
DeclaredDelimiters == {<<>>, <<",">>, <<";">>, <<",", ",">>, <<";", " ">>}

Declarations ==
    {ListDecl(a, d) : a \in {ListOf(Plain("int")), OrNone(ListOf(Plain("str")))},
                      d \in DeclaredDelimiters}
        \cup {CounterDecl(a, d) : a \in CounterAnnotations, d \in DeclaredDelimiters}
        \cup {CounterAnd(a) : a \in CounterAnnotations \cup {Plain("int")}}
        \cup {TwoCounters, CounterFirst, CounterShadowed, SimpleMetric, MetricWithOptional}

\* the rows and records a class is first used on
FirstUses(c, m) ==
    IF m = "text"
    THEN {x \in TextInputs(c) :
             /\ Len(x) <= 2
             /\ \A i \in 1..Len(x) : Len(x[i].v.s) <= 1}
    ELSE WriterRecords(c)

InitDefine ==
    /\ decl \in Declarations
    /\ raised = ""
    /\ cls = <<>>
    /\ mode = "idle" /\ input = <<>> /\ mid = Failed /\ out = Failed
    /\ normalized = <<>> /\ caller_row = <<>> /\ hooks = <<>>
    /\ pc = "declared"
    /\ TypingIdle
    /\ SharedIdle
    /\ WriterIdle
    /\ ReaderIdle

\* the class statement runs __pydantic_init_subclass__; an exception leaves no class
Define ==
    /\ pc = "declared"
    /\ LET c == DefineClass(decl)
       IN  IF c.raised # ""
           THEN /\ raised' = c.raised
                /\ pc' = "schema_error"
                /\ cls' = cls
           ELSE /\ raised' = ""
                /\ pc' = "defined"
                /\ cls' = c
    /\ UNCHANGED <<typingVars, sharedVars, decl, mode, input, mid, out, normalized, caller_row, hooks,
                   writerVars, readerVars>>

\* the first use of a defined class: a row to decode or a record to encode
Use ==
    /\ pc = "defined"
    /\ \E m \in {"text", "value"} :
          /\ mode' = m
          /\ input' \in FirstUses(cls, m)
    /\ pc' = "start"
    /\ UNCHANGED <<cls, typingVars, sharedVars, defineVars, mid, out, normalized, caller_row, hooks, writerVars, readerVars>>

NextDefine == Define \/ Use \/ Decode \/ Encode

SpecDefine == InitDefine /\ [][NextDefine]_vars

\* a field declared as an Accumulator: Counter[...], bare or inside an Optional
IsAccumulator(annotation) ==
    \/ annotation[1] = "Counter"
    \/ /\ annotation[1] \in {"Union", "UnionType"}
       /\ \E i \in 2..Len(annotation) : annotation[i][1] = "Counter"
Accumulators(d) == SelectSeq(d.model_fields, LAMBDA f : IsAccumulator(f.annotation))
OptionalAccumulator(d) ==
    \E i \in 1..Len(Accumulators(d)) : Accumulators(d)[i].annotation[1] \in {"Union", "UnionType"}
\* the key type of an Accumulator annotation
KeyType(annotation) ==
    IF annotation[1] = "Counter" THEN annotation[2]
    ELSE annotation[CHOOSE i \in 2..Len(annotation) : annotation[i][1] = "Counter"][2]
NonEnumAccumulator(d) ==
    \E i \in 1..Len(Accumulators(d)) : KeyType(Accumulators(d)[i].annotation)[1] # "StrEnum"
BadDelimiter(d) == Len(d.collection_delimiter) # 1

Executed == pc # "declared"
Defined == pc \notin {"declared", "schema_error"}
\* nothing was decoded or encoded
NeverUsed == mode = "idle" /\ input = <<>> /\ mid = Failed /\ out = Failed /\ cls = <<>>

\* C14: two or more Accumulator fields fail with a schema error when the class is
\* defined, before any row is decoded or record encoded; with zero or one Accumulator
\* field a definition fails only for another reason.
C14_MultipleCounters ==
    Executed =>
        /\ Len(Accumulators(decl)) >= 2 => (pc = "schema_error" /\ raised = "TypeError")
        /\ pc = "schema_error" => NeverUsed
        /\ (Len(Accumulators(decl)) <= 1 /\ pc = "schema_error")
              => (OptionalAccumulator(decl) \/ NonEnumAccumulator(decl) \/ BadDelimiter(decl))

C14_Witness ==
    /\ pc = "schema_error" /\ raised = "TypeError" /\ NeverUsed
    /\ Len(Accumulators(decl)) = 2
    /\ ~OptionalAccumulator(decl) /\ ~NonEnumAccumulator(decl) /\ ~BadDelimiter(decl)

C14_WitnessOne == Defined /\ pc = "done" /\ Len(Accumulators(decl)) = 1

\* C15: an Accumulator field declared Optional fails with a schema error when the class
\* is defined, so no defined class has an optional Accumulator field.
C15_OptionalCounter ==
    Executed =>
        /\ OptionalAccumulator(decl) => (pc = "schema_error" /\ raised = "TypeError" /\ NeverUsed)
        /\ Defined =>
              /\ ~OptionalAccumulator(decl)
              /\ (cls._counter_fieldname # NoName)
                     => ~is_optional(AnnotationOf(cls, cls._counter_fieldname))

C15_Witness ==
    /\ pc = "schema_error" /\ raised = "TypeError" /\ NeverUsed
    /\ Len(Accumulators(decl)) = 1 /\ OptionalAccumulator(decl)
    /\ ~NonEnumAccumulator(decl) /\ ~BadDelimiter(decl)

\* C16: an Accumulator field whose key type is not a StrEnum fails with a schema error
\* when the class is defined; for every defined class the accumulator enum is set
\* exactly when the accumulator field name is set.
C16_NonEnumCounter ==
    Executed =>
        /\ NonEnumAccumulator(decl) => (pc = "schema_error" /\ raised = "TypeError" /\ NeverUsed)
        /\ Defined =>
              /\ ~NonEnumAccumulator(decl)
              /\ (cls._counter_enum # NoName) <=> (cls._counter_fieldname # NoName)
              /\ (cls._counter_fieldname # NoName) <=> (Len(Accumulators(decl)) = 1)

C16_Witness ==
    /\ pc = "schema_error" /\ raised = "TypeError" /\ NeverUsed
    /\ Len(Accumulators(decl)) = 1 /\ NonEnumAccumulator(decl)
    /\ ~OptionalAccumulator(decl) /\ ~BadDelimiter(decl)

C16_WitnessDefined ==
    /\ Defined /\ pc = "decoded"
    /\ cls._counter_fieldname = "counts" /\ cls._counter_enum = "FakeEnum"

\* C17: a list delimiter that is not exactly one character long fails when the class is
\* defined, before any row is decoded; a one-character delimiter is accepted; so every
\* defined class has a list delimiter of length 1.
C17_SingleCharacterDelimiter ==
    Executed =>
        /\ BadDelimiter(decl) => (pc = "schema_error" /\ NeverUsed)
        /\ (BadDelimiter(decl) /\ Accumulators(decl) = <<>>) => raised = "ValueError"
        /\ (~BadDelimiter(decl) /\ pc = "schema_error")
              => (Len(Accumulators(decl)) >= 2 \/ OptionalAccumulator(decl)
                     \/ NonEnumAccumulator(decl))
        /\ Defined => Len(cls.collection_delimiter) = 1

C17_Witness ==
    /\ pc = "schema_error" /\ raised = "ValueError" /\ NeverUsed
    /\ Len(decl.collection_delimiter) = 2 /\ Len(Accumulators(decl)) = 1

C17_WitnessEmpty ==
    /\ pc = "schema_error" /\ raised = "ValueError" /\ NeverUsed
    /\ decl.collection_delimiter = <<>> /\ Accumulators(decl) = <<>>

C17_WitnessAccepted ==
    /\ Defined /\ pc = "done" /\ cls.collection_delimiter = <<";">> /\ IsListClass(cls)

\* ------------------------------------------------ the empty-field normalizer
TextDecoded == mode = "text" /\ pc \in {"decoded", "rejected", "done"}
EmptyCell == StrV(<<>>)
OptionalField(key) == IsField(cls, key) /\ is_optional(AnnotationOf(cls, key))
RequiredField(key) == IsField(cls, key) /\ ~is_optional(AnnotationOf(cls, key))

\* the normalizer's output has the row's keys, and None exactly where the row has the
\* empty string in a declared optional field
ReplacedExactlyWhenOptionalAndEmpty ==
    /\ KeySeq(normalized) = KeySeq(input)
    /\ \A i \in 1..Len(input) :
          normalized[i].v =
              IF input[i].v = EmptyCell /\ OptionalField(input[i].k) THEN NoneV ELSE input[i].v

C12_WitnessRejected ==
    /\ TextDecoded /\ pc = "rejected"
    /\ HasKey(input, "name") /\ Get(input, "name") # EmptyCell
    /\ HasKey(input, "count") /\ Get(input, "count") = EmptyCell
    /\ normalized = input

\* -------------------------------------------------------- the caller's row
\* the mapping that was handed to model_validate
Handed == IF mode = "text" THEN input ELSE mid.data
AfterDecode ==
    IF mode = "text" THEN pc \in {"decoded", "rejected", "done"} ELSE pc \in {"done", "rejected"}

C13_WitnessFailed ==
    /\ mode = "text" /\ pc = "rejected"
    /\ normalized # input
    /\ caller_row = input

\* --------------------------------------------------- accumulator contents
\* C18: every record of a class with an Accumulator field holds an entry for every enum
\* member, each a non-negative integer, whether it was decoded from wide columns or
\* built from a row that holds the accumulator under its own field name.
C18_AccumulatorPopulated ==
    CounterTextCase =>
        \A i \in 1..Len(Members) :
            /\ HasKey(Counts, Members[i].name)
            /\ Get(Counts, Members[i].name).tag = "int"
            /\ Get(Counts, Members[i].name).n >= 0

\* the part of C18 that holds: decoded from wide columns, every member has an entry
C18_WideRowsPopulated ==
    WideTextCase => \A i \in 1..Len(Members) : HasKey(Counts, Members[i].name)

\* the parts of C18 that fail, one by one
C18_WideRowsNonNegative ==
    WideTextCase => \A i \in 1..Len(Counts) : Counts[i].v.n >= 0
C18_SuppliedPopulated ==
    (CounterTextCase /\ ~WideTextCase) => \A i \in 1..Len(Members) : HasKey(Counts, Members[i].name)

\* ------------------------------------------------------------- the unpivot
ValueEncoded == mode = "value" /\ pc \in {"encoded", "done", "rejected"}
Encoded == mid.data
RecordCounts == Get(input, cls._counter_fieldname).cnt

\* C19: encoding a record of a class with an Accumulator field removes the accumulator
\* field's key and adds one key per enum member, named by the member's token with the
\* member's count as value, in enum declaration order; without an Accumulator field
\* the default-serialized output is returned unchanged.
C19_Unpivot ==
    ValueEncoded =>
        IF IsCounterClass(cls)
        THEN /\ ~HasKey(Encoded, cls._counter_fieldname)
             /\ \A i \in 1..Len(Members) :
                   /\ HasKey(Encoded, Tokens[i])
                   /\ HasKey(RecordCounts, Members[i].name)
                   /\ Get(Encoded, Tokens[i]).s = StrOf(Get(RecordCounts, Members[i].name))
             /\ TokenColumns(Encoded) = Tokens
        ELSE /\ KeySeq(Encoded) = KeySeq(input)
             /\ \A i \in 1..Len(input) :
                   Encoded[i].v.s = CellOf(_join_lists(cls, input[i].v, input[i].k))

\* what the code does: one key per entry of the record's accumulator, in entry order
C19_UnpivotPerEntry ==
    (ValueEncoded /\ IsCounterClass(cls)) =>
        /\ ~HasKey(Encoded, cls._counter_fieldname)
        /\ \A i \in 1..Len(RecordCounts) :
              LET token == ValueOf(cls._counter_enum, RecordCounts[i].k)
              IN  HasKey(Encoded, token) /\ Get(Encoded, token).s = StrOf(RecordCounts[i].v)
        /\ \A i \in 1..Len(Members) :
              (~HasKey(RecordCounts, Members[i].name) /\ ~IsField(cls, Tokens[i]))
                  => ~HasKey(Encoded, Tokens[i])

\* the full accumulators in enum declaration order, for which C19 holds
C19_UnpivotOfFullCounter ==
    (ValueEncoded /\ IsCounterClass(cls) /\ KeySeq(RecordCounts) = MemberNames) =>
        /\ ~HasKey(Encoded, cls._counter_fieldname)
        /\ \A i \in 1..Len(Members) :
              /\ HasKey(Encoded, Tokens[i])
              /\ Get(Encoded, Tokens[i]).s = StrOf(Get(RecordCounts, Members[i].name))
        /\ TokenColumns(Encoded) = Tokens

\* ------------------------------------------------------ the written file
DataLines(c, fieldnames, metrics) ==
    [i \in 1..Len(metrics) |-> writerow(fieldnames, model_dump(c, metrics[i]))]

\* calling write on each element in order, from writer w
RECURSIVE WriteEach(_, _, _)
WriteEach(c, w, metrics) ==
    IF metrics = <<>> THEN w
    ELSE WriteEach(c, write(c, w, Head(metrics)), Tail(metrics))

C20_WitnessClosed ==
    wpc = "ready" /\ wfout = "closed" /\ werr = "ValueError" /\ Len(wlines) = 2

\* ---------------------------------------------------- the typing helpers
\* most members a union is declared with
MaxArity == 3

\* sequences of 2..n different members of S
DistinctSeqs(S, n) ==
    {q \in SeqsUpTo(S, n) :
        Len(q) >= 2 /\ \A i, j \in 1..Len(q) : i # j => q[i] # q[j]}
\* the unions over S, in both syntaxes: Union[...] (also Optional[...]) and PEP 604
UnionsOver(S) == {<<syntax>> \o q : syntax \in {"Union", "UnionType"}, q \in DistinctSeqs(S, MaxArity)}

Atoms == {Plain("str"), Plain("int"), Plain("float")}
ElementAnnotations == Atoms \cup UnionsOver(Atoms \cup {NoneType})
Generics ==
    {ListOf(e) : e \in ElementAnnotations}
        \cup {CounterOf(StrEnum("FakeEnum")), CounterOf(Plain("str")),
              <<"set", Plain("int")>>, <<"set", OrNone(Plain("int"))>>}
OuterUnions ==
    UNION {{u \in UnionsOver({g, NoneType, Plain("str")}) : \E i \in 2..Len(u) : u[i] = g} :
               g \in Generics}
\* None (no annotation), NoneType, bare list, plain types, unions, generics, unions of them
Annotations ==
    {NoAnnotation, NoneType, Plain("list")} \cup ElementAnnotations \cup Generics \cup OuterUnions

InitTyping ==
    /\ anno \in Annotations
    /\ tpc = "start"
    /\ tret = NoReturn
    /\ cls = <<>>
    /\ SharedIdle
    /\ DefineIdle
    /\ CodecIdle
    /\ WriterIdle
    /\ ReaderIdle

IsOptional ==
    /\ tpc = "start"
    /\ tpc' = "is_optional"
    /\ tret' = [raised |-> "", value |-> is_optional(anno)]
    /\ UNCHANGED <<cls, anno, sharedVars, defineVars, codecVars, writerVars, readerVars>>

UnpackOptional ==
    /\ tpc = "start"
    /\ tpc' = "unpack_optional"
    /\ LET result == unpack_optional(anno)
       IN  tret' = IF result = <<"ValueError">>
                   THEN [raised |-> "ValueError", value |-> <<>>]
                   ELSE [raised |-> "", value |-> result]
    /\ UNCHANGED <<cls, anno, sharedVars, defineVars, codecVars, writerVars, readerVars>>

\* the one call in has_optional_elements that can raise is unpack_optional
HasOptionalElements ==
    /\ tpc = "start"
    /\ tpc' = "has_optional_elements"
    /\ tret' = IF /\ anno # NoAnnotation
                  /\ is_optional(anno)
                  /\ unpack_optional(anno) = <<"ValueError">>
               THEN [raised |-> "ValueError", value |-> <<>>]
               ELSE [raised |-> "", value |-> has_optional_elements(anno)]
    /\ UNCHANGED <<cls, anno, sharedVars, defineVars, codecVars, writerVars, readerVars>>

NextTyping == IsOptional \/ UnpackOptional \/ HasOptionalElements

SpecTyping == InitTyping /\ [][NextTyping]_vars

IsUnion(t) == t[1] \in {"Union", "UnionType"}
UnionMembers(t) == SubSeq(t, 2, Len(t))
HasAbsentMember(t) == \E i \in 2..Len(t) : t[i] = NoneType
IsOptionalType(t) == IsUnion(t) /\ HasAbsentMember(t)
Remaining(t) == SelectSeq(UnionMembers(t), LAMBDA m : m # NoneType)
Range(q) == {q[i] : i \in 1..Len(q)}

\* C21: is_optional(t) is true iff t is a union one of whose members is None, in any
\* union syntax and of any arity; false for a non-union type, for a union without None
\* and for a missing annotation.
C21_IsOptional ==
    tpc = "is_optional" =>
        /\ tret.raised = ""
        /\ tret.value = IsOptionalType(anno)
        /\ (anno = NoAnnotation \/ ~IsUnion(anno) \/ ~HasAbsentMember(anno)) => tret.value = FALSE

\* a PEP 604 union of three members, None among them
C21_Witness ==
    /\ tpc = "is_optional" /\ tret.value = TRUE
    /\ anno[1] = "UnionType" /\ Len(anno) = 4 /\ anno[3] = NoneType
C21_WitnessTypingUnion == tpc = "is_optional" /\ tret.value = TRUE /\ anno = Optional(Plain("str"))
C21_WitnessNoNone ==
    tpc = "is_optional" /\ tret.value = FALSE /\ anno = <<"Union", Plain("str"), Plain("int")>>
C21_WitnessMissing == tpc = "is_optional" /\ tret.value = FALSE /\ anno = NoAnnotation

\* C22: for an optional t, unpack_optional(t) returns t's members without None: the one
\* remaining type itself, or a union of exactly the remaining types; for a non-optional
\* t it raises instead of returning a type.
C22_UnpackOptional ==
    tpc = "unpack_optional" =>
        IF IsOptionalType(anno)
        THEN /\ tret.raised = ""
             /\ IF Len(Remaining(anno)) = 1
                THEN tret.value = Remaining(anno)[1]
                ELSE /\ IsUnion(tret.value)
                     /\ Len(UnionMembers(tret.value)) = Len(Remaining(anno))
                     /\ Range(UnionMembers(tret.value)) = Range(Remaining(anno))
        ELSE tret.raised = "ValueError" /\ tret.value = <<>>

C22_Witness ==
    /\ tpc = "unpack_optional" /\ tret.raised = ""
    /\ anno = <<"UnionType", Plain("str"), Plain("int"), NoneType>>
    /\ tret.value = <<"UnionType", Plain("str"), Plain("int")>>
C22_WitnessOne ==
    /\ tpc = "unpack_optional" /\ tret.raised = ""
    /\ anno = OrNone(ListOf(Plain("int"))) /\ tret.value = ListOf(Plain("int"))
C22_WitnessRaised ==
    tpc = "unpack_optional" /\ tret.raised = "ValueError" /\ anno = Plain("int")

\* a parameterized list whose element type is optional
ListOfOptional(t) == t[1] = "list" /\ Len(t) = 2 /\ IsOptionalType(t[2])
\* t with an outer Optional removed
WithoutOuterOptional(t) ==
    IF ~IsOptionalType(t) THEN t
    ELSE IF Len(Remaining(t)) = 1 THEN Remaining(t)[1]
    ELSE <<"UnionType">> \o Remaining(t)

\* C23: has_optional_elements(t) is true iff t, with an outer Optional removed, is a
\* parameterized list whose element type is optional; whether the list as a whole is
\* optional makes no difference, and the call never raises.
C23_HasOptionalElements ==
    tpc = "has_optional_elements" =>
        /\ tret.raised = ""
        /\ tret.value = (anno # NoAnnotation /\ ListOfOptional(WithoutOuterOptional(anno)))
        /\ \A t \in Atoms :
              /\ anno \in {ListOf(OrNone(t)), OrNone(ListOf(OrNone(t))),
                            Optional(ListOf(Optional(t)))} => tret.value = TRUE
              /\ anno \in {ListOf(t), OrNone(ListOf(t)), Optional(ListOf(t)), t, OrNone(t)}
                    => tret.value = FALSE

C23_Witness ==
    /\ tpc = "has_optional_elements" /\ tret.value = TRUE
    /\ anno = OrNone(ListOf(<<"UnionType", Plain("int"), Plain("float"), NoneType>>))
C23_WitnessList ==
    tpc = "has_optional_elements" /\ tret.value = TRUE /\ anno = ListOf(Optional(Plain("int")))
C23_WitnessFalse ==
    tpc = "has_optional_elements" /\ tret.value = FALSE /\ anno = OrNone(ListOf(Plain("int")))
\* an optional whose remainder is a union with a list in it
C23_WitnessHigherArity ==
    /\ tpc = "has_optional_elements" /\ tret.value = FALSE
    /\ anno = <<"UnionType", ListOf(OrNone(Plain("int"))), Plain("str"), NoneType>>

\* ------------------------------------------------- the validators of a decode
Decoded == hooks # <<>>
HookCall(fn) == hooks[CHOOSE i \in 1..Len(hooks) : hooks[i].fn = fn]
FoldCall == HookCall("_collect_counter_values")
\* the fold's short-circuits: no counter field, or the counter's key is in the row
FoldSkipped ==
    Decoded /\ (~IsCounterClass(cls) \/ HasKey(FoldCall.arg, cls._counter_fieldname))
FoldRan == Decoded /\ ~FoldSkipped

\* C24: the fold returns the row unchanged, no key added, removed or rewritten and no
\* enum-token column folded, when the class declares no counter field or the row
\* already holds a key equal to the counter field's name.
C24_FoldShortCircuit == FoldSkipped => FoldCall.ret = FoldCall.arg

\* a row with the counter's key and an enum-token column: the column stays
C24_Witness ==
    /\ FoldSkipped /\ IsCounterClass(cls) /\ ~IsField(cls, "foo")
    /\ HasKey(FoldCall.arg, "foo") /\ HasKey(FoldCall.ret, "foo")
    /\ pc = "decoded"
C24_WitnessNoCounter ==
    FoldSkipped /\ ~IsCounterClass(cls) /\ HasKey(FoldCall.ret, "extra") /\ pc = "decoded"

Folds(key) == ~IsField(cls, key) /\ IsEnumValue(cls._counter_enum, key)
FoldedCounts == Get(FoldCall.ret, cls._counter_fieldname).cnt

\* C25: when the fold runs, a key is moved into the counter and removed from the row
\* iff it is not a declared field name and equals an enum member's token; a declared
\* field's key stays in the row as that field's value even if it equals a token, and
\* a key that is neither stays in the row with its value.
C25_FoldMoves ==
    FoldRan =>
        /\ \A i \in 1..Len(FoldCall.arg) :
              LET key == FoldCall.arg[i].k
                  value == FoldCall.arg[i].v
              IN  IF Folds(key)
                  THEN /\ ~HasKey(FoldCall.ret, key)
                       /\ Get(FoldedCounts, EnumOf(cls._counter_enum, key)) = value
                  ELSE /\ HasKey(FoldCall.ret, key)
                       /\ Get(FoldCall.ret, key) = value
                       /\ IsEnumValue(cls._counter_enum, key) =>
                              Get(FoldedCounts, EnumOf(cls._counter_enum, key)) = IntV(0)
        /\ Keys(FoldCall.ret) =
              {key \in Keys(FoldCall.arg) : ~Folds(key)} \cup {cls._counter_fieldname}

\* foo is a declared field and a token, bar a token only, extra neither
C25_Witness ==
    /\ FoldRan /\ IsField(cls, "foo") /\ pc = "decoded"
    /\ HasKey(FoldCall.arg, "foo") /\ HasKey(FoldCall.arg, "bar") /\ HasKey(FoldCall.arg, "extra")
    /\ HasKey(FoldCall.ret, "foo") /\ ~HasKey(FoldCall.ret, "bar") /\ HasKey(FoldCall.ret, "extra")
    /\ Get(FoldedCounts, "BAR") = Get(FoldCall.arg, "bar")

EmptyOptional(row) ==
    \E i \in 1..Len(row) : OptionalField(row[i].k) /\ row[i].v = EmptyCell
DecodeResult == IF mode = "text" THEN mid ELSE out

\* C26: in every decode the normalizer runs first over the whole row, then the fold over
\* the whole row, then per field the list split followed by the coercion; so no fold
\* and no list split sees a row in which a declared optional field holds the empty string.
C26_PipelineOrder ==
    Decoded =>
        /\ Len(hooks) >= 2
        /\ hooks[1].fn = "_empty_field_to_none" /\ hooks[1].arg = Handed
        /\ hooks[2].fn = "_collect_counter_values" /\ hooks[2].arg = hooks[1].ret
        /\ ~EmptyOptional(hooks[2].arg)
        /\ ~EmptyOptional(hooks[2].ret)
        /\ \A i \in 3..Len(hooks) :
              /\ hooks[i].fn = "_split_lists"
              /\ hooks[i].value = Get(hooks[2].ret, hooks[i].field)
              /\ OptionalField(hooks[i].field) => hooks[i].value # EmptyCell
              /\ DecodeResult.ok =>
                    Get(DecodeResult.data, hooks[i].field) =
                        validate_python(AnnotationOf(cls, hooks[i].field), hooks[i].ret)

\* an optional list field given the empty cell: the split is handed None
C26_Witness ==
    /\ Decoded /\ mode = "text" /\ IsListClass(cls) /\ OptionalField("values")
    /\ Get(input, "values") = EmptyCell
    /\ Len(hooks) = 3 /\ hooks[3].field = "values" /\ hooks[3].value = NoneV
    /\ pc = "decoded"
C26_WitnessCounter ==
    /\ Decoded /\ mode = "text" /\ FoldRan /\ HasKey(input, "bar")
    /\ \E i \in 3..Len(hooks) : hooks[i].field = cls._counter_fieldname
    /\ pc = "decoded"

\* ------------------------------------------------ declared fields on encode
\* the record an encode was given, the row it produced
EncodeDone == IF mode = "value" THEN pc \in {"encoded", "done", "rejected"} ELSE pc = "done"
EncodedRecord == IF mode = "value" THEN input ELSE mid.data
EncodedRow == IF mode = "value" THEN mid.data ELSE out.data
OwnCell(key) == CellOf(_join_lists(cls, Get(EncodedRecord, key), key))
OtherFields == SelectSeq(FieldNames(cls), LAMBDA key : key # cls._counter_fieldname)

\* C28: in every encoded row each declared non-counter field name maps to that field's
\* own serialized value, also when an enum member's token equals a declared field name.
C28_DeclaredFieldsKept ==
    EncodeDone =>
        \A i \in 1..Len(OtherFields) :
            /\ HasKey(EncodedRow, OtherFields[i])
            /\ Get(EncodedRow, OtherFields[i]).s = OwnCell(OtherFields[i])

\* what holds: the fields whose name is no token of an entry of the record's counter
C28_UnshadowedFieldsKept ==
    EncodeDone =>
        \A i \in 1..Len(OtherFields) :
            (IsCounterClass(cls) =>
                \A j \in 1..Len(Get(EncodedRecord, cls._counter_fieldname).cnt) :
                    ValueOf(cls._counter_enum,
                            Get(EncodedRecord, cls._counter_fieldname).cnt[j].k) # OtherFields[i])
              => /\ HasKey(EncodedRow, OtherFields[i])
                 /\ Get(EncodedRow, OtherFields[i]).s = OwnCell(OtherFields[i])

\* a declared field foo under a counter with an entry for FOO: the row's foo is the count
C28_ShadowedFieldOverwritten ==
    /\ EncodeDone /\ mode = "value" /\ IsCounterClass(cls) /\ IsField(cls, "foo")
    /\ Get(EncodedRecord, "foo") = IntV(7)
    /\ HasKey(Get(EncodedRecord, "counts").cnt, "FOO")
    /\ Get(EncodedRow, "foo").s = StrOf(Get(Get(EncodedRecord, "counts").cnt, "FOO"))
    /\ Get(EncodedRow, "foo").s # <<"7">>

\* ------------------------------------------- optional lists, written and read
OptionalListWritten ==
    /\ mode = "value" /\ IsListClass(cls) /\ is_optional(ListFieldAnnotation(cls))
    /\ pc \in {"encoded", "done", "rejected"}
EmptyOrAbsent == FieldValue(input) \in {NoneV, ListV(<<>>)}

\* C29: for a field declared Optional(List(T)) the empty sequence and the absent value
\* are both written as the empty cell, and reading that cell back yields absent:
\* writing then reading a record never returns the empty sequence for such a field.
C29_OptionalListWrittenAndRead ==
    OptionalListWritten =>
        /\ EmptyOrAbsent => FieldValue(mid.data).s = <<>>
        /\ (pc # "encoded" /\ FieldValue(mid.data).s = <<>>) =>
              (pc = "done" /\ FieldValue(out.data) = NoneV)
        /\ pc = "done" => FieldValue(out.data) # ListV(<<>>)

\* the empty sequence was written and absent came back
C29_Witness ==
    /\ OptionalListWritten /\ pc = "done"
    /\ FieldValue(input) = ListV(<<>>) /\ FieldValue(mid.data).s = <<>>
    /\ FieldValue(out.data) = NoneV
C29_WitnessAbsent ==
    /\ OptionalListWritten /\ pc = "done"
    /\ FieldValue(input) = NoneV /\ FieldValue(mid.data).s = <<>>
    /\ FieldValue(out.data) = NoneV

\* ------------------------------------------------------- a closed writer
\* C30 as stated: once the writer is closed its handle stays closed, and every later
\* write or writeall call fails and leaves the file as it is.
C30_ClosedWriter_AsStated ==
    [][wfout = "closed" =>
          /\ wfout' = "closed"
          /\ wlines' = wlines
          /\ wcall'.raised = "ValueError"]_vars

\* C30 (amended): once the writer is closed its handle stays closed and no later call
\* adds a line; a write call, and a writeall call with at least one record, fails; a
\* writeall call with no record returns normally.
C30_ClosedWriter ==
    [][wfout = "closed" =>
          /\ wfout' = "closed"
          /\ wlines' = wlines
          /\ wwritten' = wwritten
          /\ wcall'.raised = IF wcall'.metrics = <<>> THEN "" ELSE "ValueError"]_vars

\* a writeall of two records on a closed writer that had written one
C30_Witness ==
    /\ wfout = "closed" /\ wcall.fout = "closed"
    /\ wcall.op = "writeall" /\ Len(wcall.metrics) = 2 /\ wcall.raised = "ValueError"
    /\ Len(wlines) = 2 /\ Len(wwritten) = 1
C30_WitnessWrite ==
    /\ wfout = "closed" /\ wcall.fout = "closed"
    /\ wcall.op = "write" /\ wcall.raised = "ValueError" /\ Len(wlines) = 2
\* writeall of nothing on a closed writer
C30_WitnessEmpty ==
    /\ wfout = "closed" /\ wcall.fout = "closed"
    /\ wcall.op = "writeall" /\ wcall.metrics = <<>> /\ wcall.raised = "" /\ Len(wlines) = 2

\* -------------------------------------------- several classes, many calls
\* most decode and encode calls in one run
MaxCalls == 3

\* the schema metadata __pydantic_init_subclass__ stores on the class
Metadata(c) ==
    [_list_fieldnames |-> c._list_fieldnames,
     _optional_element_fieldnames |-> c._optional_element_fieldnames,
     _counter_fieldname |-> c._counter_fieldname,
     _counter_enum |-> c._counter_enum,
     collection_delimiter |-> c.collection_delimiter]

\* faulty variant: the validators remember the row's keys as list fields
ClassAfterValidate_remembering(c, data) ==
    [c EXCEPT !._list_fieldnames = @ \cup Keys(data)]

\* The class object after one model_validate call: the validators read model_fields,
\* _list_fieldnames, _optional_element_fieldnames, _counter_fieldname, _counter_enum and
\* collection_delimiter, and assign to none of them.
ClassAfterValidate(c, data) == c

\* The class object after one model_dump call: the serializers read the metadata only.
ClassAfterDump(c, record) == c

\* the programs: two class statements each
Programs ==
    {<<ListDecl(OrNone(ListOf(Plain("int"))), <<",">>), CounterLast>>,
     <<CounterShadowed, SimpleMetric>>,
     <<ListDecl(ListOf(OrNone(Plain("str"))), <<";">>), MetricWithOptional>>,
     <<CounterLast, CounterFirst>>}

Cell(key, text) == [k |-> key, v |-> StrV(text)]
\* a few rows for class c
SharedRows(c) ==
    IF IsListClass(c)
    THEN {<<Cell("values", <<>>)>>, <<Cell("values", <<"1">>)>>}
    ELSE IF IsCounterClass(c)
    THEN {<<Cell("name", <<"a">>), Cell("foo", <<"1">>), Cell("bar", <<"1">>)>>,
          <<Cell("name", <<"a">>), Cell("foo", <<"1">>)>>}
    ELSE {<<Cell("name", <<"a">>), Cell(c.model_fields[2].name, <<>>)>>,
          <<Cell("name", <<"a">>), Cell(c.model_fields[2].name, <<"1">>)>>}
\* one record of class c
SharedRecords(c) == {CHOOSE r \in WriterRecords(c) : TRUE}

InitShared ==
    /\ \E program \in Programs :
          /\ registry = [i \in 1..Len(program) |-> DefineClass(program[i])]
          /\ defined = [i \in 1..Len(program) |-> Metadata(DefineClass(program[i]))]
    /\ history = <<>>
    /\ cls = <<>>
    /\ TypingIdle
    /\ DefineIdle
    /\ CodecIdle
    /\ WriterIdle
    /\ ReaderIdle

\* registry[i].model_validate(row)
DecodeOn ==
    /\ Len(history) < MaxCalls
    /\ \E i \in 1..Len(registry) :
          \E data \in SharedRows(registry[i]) :
             /\ history' = Append(history, [op |-> "decode", on |-> i, arg |-> data,
                                            ret |-> model_validate(registry[i], data)])
             /\ registry' = [registry EXCEPT ![i] = ClassAfterValidate(@, data)]
    /\ UNCHANGED <<cls, defined, typingVars, defineVars, codecVars, writerVars, readerVars>>

\* record.model_dump() of a record of registry[i]
EncodeOn ==
    /\ Len(history) < MaxCalls
    /\ \E i \in 1..Len(registry) :
          \E record \in SharedRecords(registry[i]) :
             /\ history' = Append(history, [op |-> "encode", on |-> i, arg |-> record,
                                            ret |-> Ok(model_dump(registry[i], record))])
             /\ registry' = [registry EXCEPT ![i] = ClassAfterDump(@, record)]
    /\ UNCHANGED <<cls, defined, typingVars, defineVars, codecVars, writerVars, readerVars>>

NextShared == DecodeOn \/ EncodeOn

SpecShared == InitShared /\ [][NextShared]_vars

====
